---- MODULE Spec2Model ----
(***************************************************************************)
(* Model of the rdm-academy/api commit log (commitlog/service.go) and of   *)
(* the gateway's log handler that pages through it.                        *)
(*                                                                         *)
(* One project is modelled: its two collections <project>_events and       *)
(* <project>_commit.  Every datastore call and every bson.NewObjectId()    *)
(* call of a handler is one atomic step, handlers of different requests    *)
(* interleave between those steps.  bson.NewObjectId() is modelled as a    *)
(* process-wide counter: a later call returns a larger id.                 *)
(* Fields that are copied verbatim and never read (author, time, data)     *)
(* are left out of the records.                                            *)
(***************************************************************************)
EXTENDS Integers, Sequences, FiniteSets, TLC

VARIABLES
    events,     \* the documents of <project>_events
    commits,    \* the documents of <project>_commit
    nextId,     \* bson's objectIdCounter: the id the next NewObjectId() returns
    cm,         \* per Commit handler: position, local variables, reply; alone
                \* records that no other handler wrote since the call began
    sk,         \* per event-sink handler: position and local variables
    rd,         \* the reading client: its request in flight, the handler's locals
    gw,         \* the gateway's GET /projects/:id/log handler
    objects,    \* the documents of the data service's objects collection
    up,         \* per data Update handler: position, request, record read, reply
    projects,   \* the documents of the project service's projects collection
    uuids,      \* the project ids uuid.NewV4() has handed out
    nextWid,    \* the next workflow revision id uuid.NewV4() hands out
    pj,         \* per project-service handler: position, locals, events to publish
    inbox,      \* per subscriber of events.>: the events not yet handled
    nodes,      \* the documents of the nodes service's per-project collections
    nh,         \* per event handler of the nodes service: position, event, return
    nr,         \* per caller of the nodes service: position, locals, reply
    ft,         \* per import of the data service: the position of its fetch task
    fsys,       \* the local storage backend's directories and files
    tc,         \* the client of the storage backend: position, handles, results
    df          \* the arguments and the result of a DiffGraph call

\* The commit log's state.
logVars == <<events, commits, nextId, cm, sk, rd, gw>>

\* The data object registry's state.
dataVars == <<objects, up>>

\* The project service's state and the bus.
projVars == <<projects, uuids, nextWid, pj, inbox>>

\* The node projection's state.
nodeVars == <<nodes, nh, nr>>

\* The fetch tasks of the data service's imports.
fetchVars == <<ft>>

\* The local storage backend and its client.
storageVars == <<fsys, tc>>

\* The workflow diff called on its own.
diffVars == <<df>>

\* What no handler of a service touches but the fetch task, the storage
\* backend and the diff.
otherVars == <<fetchVars, storageVars, diffVars>>

\* What no handler of the commit log touches.
outsideLog == <<dataVars, projVars, nodeVars, otherVars>>

\* What no handler of the data object registry touches.
outsideData == <<logVars, projVars, nodeVars, otherVars>>

\* What no handler of the project service touches.
outsideProject == <<logVars, dataVars, nodeVars, otherVars>>

\* What no handler of the nodes service touches, the bus apart.
outsideNodes == <<logVars, dataVars, projects, uuids, nextWid, pj, inbox, otherVars>>

vars == <<logVars, dataVars, projVars, nodeVars, otherVars>>

\* ---------------------------------------------------------------- bounds
MaxId == 4

Committers == {"c1", "c2"}
Sinks == {"s1", "s2"}
ReadSinks == {"s1"}
Project == "p"
Projects == {"", Project}
Msgs == {"", " ", " init "}
EventTypes == {"node.added"}
MaxVersion == 3
Updaters == {"u1", "u2"}
ObjIds == {"o1"}
ErrorTexts == {"", "boom"}
Hashes == {"", "sha256:h"}
MaxRevisions == 2
MaxInbox == 3
ProjHandlers == {"h1", "h2"}
Subscribers == {"commitlog", "nodes", "replay"}
Accounts == {"", "u1", "u2"}
Names == {"", "P", "p", "Q"}
ProjIds == {Project, "p2"}
NodeHandlers == {"n1", "n2"}
NodeCallers == {"c1", "c2"}
FileIds == {"f1", "f2"}
MaxFiles == 2
Fetchers == {"t1"}
Uploaders == {"l1"}
Urls == {"", "http://src"}

\* ---------------------------------------------------------------- values
\* A string of hex digits is a sequence; the empty string is <<>>.
EmptyStr == <<>>

\* ObjectId.Hex(): the hex string of an id (the zero id "" gives "").
Hex(id) == IF id = 0 THEN EmptyStr ELSE <<id>>

\* bson.ObjectIdHex(s): the id a hex string stands for.
ObjectIdHex(s) == s[1]

\* strings.TrimSpace on the messages of Msgs.
TrimSpace(m) ==
    CASE m = " " -> ""
      [] m = " init " -> "init"
      [] OTHER -> m

\* The zero value of dbCommit.
ZeroCommit == [id |-> 0, msg |-> "", parent |-> EmptyStr, event |-> 0]

\* The zero value of dbEvent.
ZeroEvent == [id |-> 0, type |-> ""]

\* ---------------------------------------------------------------- queries
Nil == -1

\* bson.M queries on _id; a nil query has no bound.
QueryAll == [gt |-> Nil, lte |-> Nil, lt |-> Nil]
QueryGte(id) == [gt |-> id - 1, lte |-> Nil, lt |-> Nil]
QueryGt(id) == [gt |-> id, lte |-> Nil, lt |-> Nil]
QueryLtOrSame(id) == [gt |-> Nil, lte |-> id, lt |-> Nil]
QueryLt(id) == [gt |-> Nil, lte |-> Nil, lt |-> id]
QueryLte(id) == [gt |-> Nil, lte |-> id, lt |-> Nil]
QueryRangeClosed(lo, hi) == [gt |-> lo - 1, lte |-> hi, lt |-> Nil]
QueryRange(lo, hi) == [gt |-> lo, lte |-> hi, lt |-> Nil]

Matches(d, q) ==
    /\ q.gt = Nil \/ d.id > q.gt
    /\ q.lte = Nil \/ d.id <= q.lte
    /\ q.lt = Nil \/ d.id < q.lt

\* Collection.Find(q): the matching documents.
Find(col, q) == {d \in col : Matches(d, q)}

\* Query.Sort("-_id"): the documents by descending _id.
RECURSIVE SortDesc(_)
SortDesc(S) ==
    IF S = {} THEN <<>>
    ELSE LET top == CHOOSE d \in S : \A x \in S : x.id <= d.id
         IN  <<top>> \o SortDesc(S \ {top})

\* Query.Limit(1).One(&v): found tells mgo.ErrNotFound apart; v keeps its
\* zero value when nothing is found.
One(sorted, zero) ==
    IF sorted = <<>> THEN [found |-> FALSE, doc |-> zero]
    ELSE [found |-> TRUE, doc |-> sorted[1]]

SelectEventOnly(r) ==
    [found |-> r.found, doc |-> [ZeroCommit EXCEPT !.event = r.doc.event]]

\* Query.Select(bson.M{"event": 1}): only _id and event are decoded.
SelectEvent(r) ==
    [found |-> r.found,
     doc |-> [ZeroCommit EXCEPT !.id = r.doc.id, !.event = r.doc.event]]

\* The latest commit: Find(nil).Sort("-_id").Limit(1).One(&commit).
FindLatestCommit(cs) == One(SortDesc(Find(cs, QueryAll)), ZeroCommit)

PendingQueryByCommitId(lastCommit) ==
    IF lastCommit.id # 0 THEN QueryGt(lastCommit.id) ELSE QueryAll

\* service.Pending: the event query for the latest commit it read.
PendingQuery(lastCommit) ==
    IF lastCommit.id # 0 THEN QueryGt(lastCommit.event) ELSE QueryAll

\* service.Pending run on one state of the two collections: the documents
\* it replies with.
PendingEvents(cs, es) ==
    SortDesc(Find(es, PendingQuery(FindLatestCommit(cs).doc)))

\* service.History: the commit before c, for the event boundary.
FindNextCommit(cs, c) ==
    SelectEvent(One(SortDesc(Find(cs, QueryLt(c.id))), ZeroCommit))

\* service.History: the event query of commit c with r the commit before.
HistoryQuery(c, r) ==
    IF ~r.found THEN QueryLte(c.event) ELSE QueryRange(r.doc.event, c.event)

\* service.History run for commit c on one state of the two collections:
\* the documents of its event window.
HistoryWindow(c, cs, es) == Find(es, HistoryQuery(c, FindNextCommit(cs, c)))

\* ---------------------------------------------------------------- Commit
\* A CommitReply, or the status error returned in its place.
Reply(code, text, id) == [code |-> code, text |-> text, id |-> id]

CommitIdle == [pc |-> "idle", msg |-> "", latestCommit |-> ZeroCommit,
               q |-> QueryAll, latestEvent |-> ZeroEvent, c |-> ZeroCommit,
               rep |-> Reply("", "", EmptyStr), alone |-> FALSE]

\* Another handler has written to the project: the calls in flight are no
\* longer alone.
Interleaved(c) == [p \in DOMAIN c |-> [c[p] EXCEPT !.alone = FALSE]]

\* The handler has returned rep; its locals are gone.
CommitReplied(rep) == [CommitIdle EXCEPT !.pc = "replied", !.rep = rep]

\* The caller of Commit takes the reply (serviceClient.Commit returns).
CommitReturn(p) ==
    /\ cm[p].pc = "replied"
    /\ cm' = [cm EXCEPT ![p] = CommitIdle]
    /\ UNCHANGED <<events, commits, nextId, sk, rd, gw, outsideLog>>


\* service.Commit up to the first query: validation, then the latest commit.
CommitBegin(p, req) ==
    /\ cm[p].pc = "idle"
    /\ UNCHANGED <<events, commits, nextId, sk, rd, gw, outsideLog>>
    /\ IF req.project = ""
       THEN cm' = [cm EXCEPT ![p] =
                CommitReplied(Reply("InvalidArgument", "project required", EmptyStr))]
       ELSE IF TrimSpace(req.msg) = ""
       THEN cm' = [cm EXCEPT ![p] =
                CommitReplied(Reply("InvalidArgument", "message required", EmptyStr))]
       ELSE LET r == SelectEvent(FindLatestCommit(commits))
            IN  cm' = [cm EXCEPT ![p] =
                        [CommitIdle EXCEPT
                            !.pc = "findEvent",
                            !.alone = TRUE,
                            !.msg = TrimSpace(req.msg),
                            !.latestCommit = r.doc,
                            !.q = IF r.found THEN QueryGt(r.doc.event) ELSE QueryAll]]
    
\* service.Commit: the latest event later than the latest commit's.
CommitFindEvent(p) ==
    /\ cm[p].pc = "findEvent"
    /\ UNCHANGED <<events, commits, nextId, sk, rd, gw, outsideLog>>
    /\ LET r == One(SortDesc(Find(events, cm[p].q)), ZeroEvent)
       IN  IF ~r.found
           THEN /\ cm' = [cm EXCEPT ![p] = CommitReplied(Reply("FailedPrecondition", "nothing to commit", EmptyStr))]
               ELSE /\ cm' = [cm EXCEPT ![p].pc = "newCommit", ![p].latestEvent = r.doc]
    
\* service.Commit: the new dbCommit, with a fresh id.
CommitNewCommit(p) ==
    /\ cm[p].pc = "newCommit"
    /\ nextId <= MaxId
    /\ UNCHANGED <<events, commits, sk, rd, gw, outsideLog>>
    /\ nextId' = nextId + 1
    /\ LET parent == IF cm[p].latestCommit.id # 0
                     THEN Hex(cm[p].latestCommit.id) ELSE EmptyStr
       IN  cm' = [cm EXCEPT ![p].pc = "insert",
                            ![p].c = [id |-> nextId, msg |-> cm[p].msg,
                                      parent |-> parent,
                                      event |-> cm[p].latestEvent.id]]

\* service.Commit: the insert and the reply.
CommitInsert(p) ==
    /\ cm[p].pc = "insert"
    /\ UNCHANGED <<events, nextId, sk, rd, gw, outsideLog>>
    /\ commits' = commits \cup {cm[p].c}
    /\ cm' = [Interleaved(cm) EXCEPT
                ![p] = CommitReplied(Reply("OK", "", Hex(cm[p].c.id)))]

\* ---------------------------------------------------------------- event sink
SinkIdle == [pc |-> "idle", e |-> ZeroEvent]

\* newEventHandler up to the insert: decode, then the dbEvent with a fresh id.
SinkReceive(h, msg) ==
    /\ sk[h].pc = "idle"
    /\ UNCHANGED <<events, commits, cm, rd, gw, outsideLog>>
    /\ IF ~msg.decodes
       THEN UNCHANGED <<sk, nextId>>
       ELSE /\ nextId <= MaxId
            /\ nextId' = nextId + 1
            /\ sk' = [sk EXCEPT ![h] = [pc |-> "insert",
                                        e |-> [id |-> nextId, type |-> msg.type]]]

\* newEventHandler: the insert into <project>_events.
SinkInsert(h) ==
    /\ sk[h].pc = "insert"
    /\ UNCHANGED <<commits, nextId, rd, gw, outsideLog>>
    /\ events' = events \cup {sk[h].e}
    /\ cm' = Interleaved(cm)
    /\ sk' = [sk EXCEPT ![h] = SinkIdle]

\* newEventHandler called by the bus with the next event of the
\* subscription: msg.Decode.
SinkDeliver(h) ==
    /\ sk[h].pc = "idle"
    /\ inbox["commitlog"] # <<>>
    /\ sk' = [sk EXCEPT ![h] = [pc |-> "decoded",
                                e |-> [id |-> 0, type |-> Head(inbox["commitlog"]).type]]]
    /\ inbox' = [inbox EXCEPT !["commitlog"] = Tail(inbox["commitlog"])]
    /\ UNCHANGED <<events, commits, nextId, cm, rd, gw, dataVars, nodeVars, otherVars,
                   projects, uuids, nextWid, pj>>

\* newEventHandler: the dbEvent with a fresh id, bson.NewObjectId().
SinkNewId(h) ==
    /\ sk[h].pc = "decoded"
    /\ nextId <= MaxId
    /\ nextId' = nextId + 1
    /\ sk' = [sk EXCEPT ![h] = [pc |-> "insert", e |-> [sk[h].e EXCEPT !.id = nextId]]]
    /\ UNCHANGED <<events, commits, cm, rd, gw, outsideLog>>

\* ---------------------------------------------------------------- Pending, History
Requests ==
    [op : {"Pending"}, project : Projects, commit : {EmptyStr}]
    \cup [op : {"History"}, project : Projects,
          commit : {EmptyStr} \cup {Hex(i) : i \in 1..MaxId}]

ZeroRequest == [op |-> "", project |-> "", commit |-> EmptyStr]

\* The Event messages of a reply, in the order of the documents.
ToEvents(docs) == [i \in 1..Len(docs) |-> [id |-> Hex(docs[i].id), type |-> docs[i].type]]

\* A PendingReply or HistoryReply (commit is nil when hasCommit is FALSE),
\* or the status error returned in its place.
ReadReply(code, text, hasCommit, id, msg, evs, next) ==
    [code |-> code, text |-> text, hasCommit |-> hasCommit, id |-> id,
     msg |-> msg, events |-> evs, next |-> next]

ErrorReply(code, text) == ReadReply(code, text, FALSE, EmptyStr, "", <<>>, EmptyStr)

ZeroReply == ErrorReply("", "")

ReaderIdle == [pc |-> "idle", req |-> ZeroRequest, commit |-> ZeroCommit,
               nextCommit |-> ZeroCommit, q |-> QueryAll, rep |-> ZeroReply]

\* The handler has returned rep; its locals are gone.
Replied(rep) == [ReaderIdle EXCEPT !.pc = "replied", !.rep = rep]

\* A client other than the gateway's log handler sends a request.
ClientCall(req) ==
    /\ rd.pc = "idle"
    /\ ~gw.active
    /\ ~gw.done
    /\ rd' = [ReaderIdle EXCEPT !.pc = "sent", !.req = req]
    /\ UNCHANGED <<events, commits, nextId, cm, sk, gw, outsideLog>>

\* That client takes the reply.
ClientReturn ==
    /\ rd.pc = "replied"
    /\ ~gw.active
    /\ rd' = ReaderIdle
    /\ UNCHANGED <<events, commits, nextId, cm, sk, gw, outsideLog>>

\* service.Pending up to the first query: the latest commit.
PendingBegin ==
    /\ rd.pc = "sent"
    /\ rd.req.op = "Pending"
    /\ UNCHANGED <<events, commits, nextId, cm, sk, gw, outsideLog>>
    /\ IF rd.req.project = ""
       THEN rd' = Replied(ErrorReply("InvalidArgument", "project required"))
       ELSE rd' = [rd EXCEPT !.pc = "pendingEvents",
                             !.commit = FindLatestCommit(commits).doc]

\* service.Pending: the events later than that commit's, and the reply.
PendingFindEvents ==
    /\ rd.pc = "pendingEvents"
    /\ UNCHANGED <<events, commits, nextId, cm, sk, gw, outsideLog>>
    /\ LET dbEvents == SortDesc(Find(events, PendingQuery(rd.commit)))
       IN  rd' = Replied(ReadReply("OK", "", FALSE, EmptyStr, "", ToEvents(dbEvents),
                                   EmptyStr))

\* service.History up to the first query: the requested or the latest commit.
HistoryBegin ==
    /\ rd.pc = "sent"
    /\ rd.req.op = "History"
    /\ UNCHANGED <<events, commits, nextId, cm, sk, gw, outsideLog>>
    /\ IF rd.req.project = ""
       THEN rd' = Replied(ErrorReply("InvalidArgument", "project required"))
       ELSE IF rd.req.commit = EmptyStr
       THEN LET r == FindLatestCommit(commits)
            IN  IF ~r.found
                THEN rd' = Replied(ErrorReply("OK", ""))
                ELSE rd' = [rd EXCEPT !.pc = "findNext", !.commit = r.doc]
       ELSE LET id == ObjectIdHex(rd.req.commit)
                r == One(SortDesc({c \in commits : c.id = id}), ZeroCommit)
            IN  IF ~r.found
                THEN rd' = Replied(ErrorReply("NotFound", "commit not found"))
                ELSE rd' = [rd EXCEPT !.pc = "findNext", !.commit = r.doc]

\* service.History: the next older commit, for the event boundary.
HistoryFindNext ==
    /\ rd.pc = "findNext"
    /\ UNCHANGED <<events, commits, nextId, cm, sk, gw, outsideLog>>
    /\ LET r == FindNextCommit(commits, rd.commit)
       IN  rd' = [rd EXCEPT !.pc = "findEvents",
                            !.nextCommit = r.doc,
                            !.q = HistoryQuery(rd.commit, r)]

\* service.History: the events of the window, and the reply.
HistoryFindEvents ==
    /\ rd.pc = "findEvents"
    /\ UNCHANGED <<events, commits, nextId, cm, sk, gw, outsideLog>>
    /\ LET evs == SortDesc(Find(events, rd.q))
           nextHex == IF rd.nextCommit.id # 0 THEN Hex(rd.nextCommit.id) ELSE EmptyStr
       IN  rd' = Replied(ReadReply("OK", "", TRUE, Hex(rd.commit.id), rd.commit.msg,
                                   ToEvents(evs), nextHex))

\* ---------------------------------------------------------------- gateway
\* start is the set of commits stored when the handler began.
GatewayIdle == [active |-> FALSE, done |-> FALSE, commits |-> <<>>, start |-> {}]

\* GET /projects/:id/log up to the first History request.
GatewayLogBegin ==
    /\ rd.pc = "idle"
    /\ ~gw.active
    /\ ~gw.done
    /\ gw' = [active |-> TRUE, done |-> FALSE, commits |-> <<>>,
              start |-> {c.id : c \in commits}]
    /\ rd' = [ReaderIdle EXCEPT
                !.pc = "sent",
                !.req = [op |-> "History", project |-> Project, commit |-> EmptyStr]]
    /\ UNCHANGED <<events, commits, nextId, cm, sk, outsideLog>>

\* GET /projects/:id/log: one turn of the loop on a History reply.
GatewayLogNext ==
    /\ rd.pc = "replied"
    /\ gw.active
    /\ UNCHANGED <<events, commits, nextId, cm, sk, outsideLog>>
    /\ IF rd.rep.code # "OK"
       THEN /\ gw' = GatewayIdle
            /\ rd' = ReaderIdle
       ELSE IF ~rd.rep.hasCommit
       THEN /\ gw' = [gw EXCEPT !.active = FALSE, !.done = TRUE]
            /\ rd' = ReaderIdle
       ELSE LET got == Append(gw.commits,
                              [id |-> rd.rep.id, msg |-> rd.rep.msg,
                               parent |-> EmptyStr, events |-> rd.rep.events])
            IN  IF rd.rep.next = EmptyStr
                THEN /\ gw' = [gw EXCEPT !.active = FALSE, !.done = TRUE, !.commits = got]
                     /\ rd' = ReaderIdle
                ELSE /\ gw' = [gw EXCEPT !.commits = got]
                     /\ rd' = [ReaderIdle EXCEPT
                                 !.pc = "sent",
                                 !.req = [op |-> "History", project |-> Project,
                                          commit |-> rd.rep.next]]

\* GET /projects/:id/log: the JSON response.
GatewayLogReturn ==
    /\ gw.done
    /\ gw' = GatewayIdle
    /\ UNCHANGED <<events, commits, nextId, cm, sk, rd, outsideLog>>

\* The commit log starts empty, its handlers idle.
CommitLogInit ==
    /\ events = {}
    /\ commits = {}
    /\ nextId = 1
    /\ cm = [p \in Committers |-> CommitIdle]
    /\ sk = [h \in Sinks |-> SinkIdle]
    /\ rd = ReaderIdle
    /\ gw = GatewayIdle

\* The handlers that write: Commit handlers C, called with a project of PS
\* and a message of MS, and event-sink handlers S.
WriterNext(C, S, PS, MS) ==
    \/ \E p \in C, proj \in PS, m \in MS :
            CommitBegin(p, [project |-> proj, msg |-> m])
    \/ \E p \in C : CommitFindEvent(p)
    \/ \E p \in C : CommitNewCommit(p)
    \/ \E p \in C : CommitInsert(p)
    \/ \E p \in C : CommitReturn(p)
    \/ \E h \in S, ok \in BOOLEAN, t \in EventTypes :
            SinkReceive(h, [decodes |-> ok, type |-> t])
    \/ \E h \in S : SinkInsert(h)

\* The History handler.
HistoryNext ==
    \/ HistoryBegin
    \/ HistoryFindNext
    \/ HistoryFindEvents

\* Pending and History called by a client.
ClientNext ==
    \/ \E req \in Requests : ClientCall(req)
    \/ ClientReturn
    \/ PendingBegin
    \/ PendingFindEvents
    \/ HistoryNext

\* History called by the gateway's log handler.
GatewayNext ==
    \/ GatewayLogBegin
    \/ GatewayLogNext
    \/ GatewayLogReturn
    \/ HistoryNext

\* ---------------------------------------------------------------- data objects
\* The states of a data object (enum State).
States == {"UNKNOWN", "CREATED", "INPROGRESS", "ERROR", "DONE"}

\* A freshly inserted object (Upload): state CREATED, version 0, no error
\* and no file metadata.
NewObject(id) ==
    [id |-> id, state |-> "CREATED", error |-> "", hash |-> "", version |-> 0]

ZeroObject == [id |-> "", state |-> "UNKNOWN", error |-> "", hash |-> "", version |-> 0]

\* FindId(id): the documents with that id, at most one.
FindId(col, id) == {o \in col : o.id = id}

\* The requests Update is called with.
UpdateRequests ==
    [id : ObjIds, state : States, error : ErrorTexts, hash : Hashes]

ZeroUpdateRequest == [id |-> "", state |-> "UNKNOWN", error |-> "", hash |-> ""]

DataReply(code, text) == [code |-> code, text |-> text]

UpdateIdle ==
    [pc |-> "idle", req |-> ZeroUpdateRequest, d |-> ZeroObject,
     rep |-> DataReply("", "")]

UpdateReplied(rep) == [UpdateIdle EXCEPT !.pc = "replied", !.rep = rep]

\* The check made on the record read before anything else: a DONE object
\* takes no update.
IsDone(d) == d.state = "DONE"

\* A mutant of DoneAllowedFrom: DONE from any state.
DoneAllowedFromAny(d) == TRUE

\* The state DONE may be requested from.
DoneAllowedFrom(d) == d.state = "INPROGRESS"

\* The reply of the validation of req against the record d that was read,
\* code "" when the request goes on to the write.
UpdateValidate(d, req) ==
    IF IsDone(d)
    THEN DataReply("FailedPrecondition", "object is done")
    ELSE IF req.state = "UNKNOWN"
    THEN DataReply("InvalidArgument", "state required")
    ELSE IF req.state = "INPROGRESS" \/ req.state = "ERROR"
    THEN DataReply("", "")
    ELSE IF req.state = "DONE"
    THEN IF ~DoneAllowedFrom(d)
         THEN DataReply("InvalidArgument", "object cannot transition to DONE from DONE")
         ELSE DataReply("", "")
    ELSE DataReply("InvalidArgument", "object cannot transition to state CREATED")

\* A mutant of NextVersion: the version is written back as read.
SameVersion(v) == v

\* A mutant of NextVersion: the version is raised by two.
SkipVersion(v) == v + 2

\* The version an update writes.
NextVersion(v) == v + 1

\* A mutant of ApplySet: INPROGRESS keeps the error text.
ApplySetKeepError(o, d, req) ==
    IF req.state = "INPROGRESS"
    THEN [o EXCEPT !.state = req.state, !.version = NextVersion(d.version)]
    ELSE IF req.state = "ERROR"
    THEN [o EXCEPT !.state = req.state, !.error = req.error,
                   !.version = NextVersion(d.version)]
    ELSE [o EXCEPT !.state = req.state, !.hash = req.hash,
                   !.version = NextVersion(d.version)]

\* The $set document of an update applied to the stored record o.
ApplySet(o, d, req) ==
    IF req.state = "INPROGRESS"
    THEN [o EXCEPT !.state = req.state, !.error = "",
                   !.version = NextVersion(d.version)]
    ELSE IF req.state = "ERROR"
    THEN [o EXCEPT !.state = req.state, !.error = req.error,
                   !.version = NextVersion(d.version)]
    ELSE [o EXCEPT !.state = req.state, !.hash = req.hash,
                   !.version = NextVersion(d.version)]

\* A mutant of UpdateQuery: the update selects by id alone.
UpdateQueryById(col, id, version) == FindId(col, id)

\* The documents the optimistic update selects: by id and the version read.
UpdateQuery(col, id, version) ==
    {o \in FindId(col, id) : o.version = version}

\* Upload inserts a fresh object under a new id.
Upload(id) ==
    /\ FindId(objects, id) = {}
    /\ objects' = objects \cup {NewObject(id)}
    /\ UNCHANGED <<up, outsideData>>

\* Update reads the record and validates the request against it.
UpdateBegin(u, req) ==
    /\ up[u].pc = "idle"
    /\ UNCHANGED <<objects, outsideData>>
    /\ IF FindId(objects, req.id) = {}
       THEN up' = [up EXCEPT ![u] = UpdateReplied(DataReply("NotFound", "object not found"))]
       ELSE LET d == CHOOSE o \in FindId(objects, req.id) : TRUE
                v == UpdateValidate(d, req)
            IN  IF v.code # ""
                THEN up' = [up EXCEPT ![u] = UpdateReplied(v)]
                ELSE up' = [up EXCEPT ![u] = [UpdateIdle EXCEPT
                                !.pc = "write", !.req = req, !.d = d]]

\* The optimistic update: applied when the version is still the one read.
UpdateWrite(u) ==
    /\ up[u].pc = "write"
    /\ up[u].d.version < MaxVersion
    /\ UNCHANGED outsideData
    /\ LET sel == UpdateQuery(objects, up[u].req.id, up[u].d.version)
       IN  IF sel = {}
           THEN /\ objects' = objects
                /\ up' = [up EXCEPT ![u] = UpdateReplied(
                            DataReply("Unavailable", "object update conflict"))]
           ELSE LET o == CHOOSE x \in sel : TRUE
                IN  /\ objects' = (objects \ {o}) \cup {ApplySet(o, up[u].d, up[u].req)}
                    /\ up' = [up EXCEPT ![u] = UpdateReplied(DataReply("OK", ""))]

\* The caller takes the reply.
UpdateReturn(u) ==
    /\ up[u].pc = "replied"
    /\ up' = [up EXCEPT ![u] = UpdateIdle]
    /\ UNCHANGED <<objects, outsideData>>

\* Describe: the record is read and returned; nothing is written.
Describe(u, id) ==
    /\ up[u].pc = "idle"
    /\ UNCHANGED <<objects, outsideData>>
    /\ IF FindId(objects, id) = {}
       THEN up' = [up EXCEPT ![u] = UpdateReplied(DataReply("NotFound", "object not found"))]
       ELSE up' = [up EXCEPT ![u] = [UpdateReplied(DataReply("OK", "")) EXCEPT
                        !.d = CHOOSE o \in FindId(objects, id) : TRUE]]

\* Get: the record is read and a signed url made for it; signed is whether
\* the storage backend signs urls (the local one does not).
Get(u, id, signed) ==
    /\ up[u].pc = "idle"
    /\ UNCHANGED <<objects, outsideData>>
    /\ IF FindId(objects, id) = {}
       THEN up' = [up EXCEPT ![u] = UpdateReplied(DataReply("NotFound", "object not found"))]
       ELSE IF ~signed
       THEN up' = [up EXCEPT ![u] = UpdateReplied(
                        DataReply("Unknown", "signed urls are not supported"))]
       ELSE up' = [up EXCEPT ![u] = UpdateReplied(DataReply("OK", ""))]

\* Describe and Get called by the callers U.
DataReadNext(U) ==
    \/ \E u \in U, id \in ObjIds : Describe(u, id)
    \/ \E u \in U, id \in ObjIds, signed \in BOOLEAN : Get(u, id, signed)

\* The registry starts empty, its handlers idle.
DataInit ==
    /\ objects = {}
    /\ up = [u \in Updaters \cup Fetchers \cup Uploaders |-> UpdateIdle]

DataNext ==
    \/ \E id \in ObjIds : Upload(id)
    \/ \E u \in Updaters, req \in UpdateRequests : UpdateBegin(u, req)
    \/ \E u \in Updaters : UpdateWrite(u)
    \/ \E u \in Updaters : UpdateReturn(u)

\* ---------------------------------------------------------------- Import and its fetch task
\* No Import made: no fetch task.
FetchNone ==
    [pc |-> "none", id |-> "", err |-> "", hash |-> "", applied |-> "",
     rep |-> DataReply("", "")]

\* The request the fetch task makes at its position: INPROGRESS before the
\* transfer, ERROR with the error text after a failed one, DONE with the
\* hash after a successful one.
FetchRequest(t) ==
    CASE t.pc = "start" ->
            [id |-> t.id, state |-> "INPROGRESS", error |-> "", hash |-> ""]
      [] t.pc = "failed" ->
            [id |-> t.id, state |-> "ERROR", error |-> t.err, hash |-> ""]
      [] OTHER ->
            [id |-> t.id, state |-> "DONE", error |-> "", hash |-> t.hash]

\* Import: a url is required; the object is inserted in state CREATED and
\* the fetch task is started.
Import(f, id, url) ==
    /\ ft[f].pc = "none"
    /\ UNCHANGED <<up, logVars, projVars, nodeVars, storageVars, diffVars>>
    /\ IF url = ""
       THEN /\ objects' = objects
            /\ ft' = [ft EXCEPT ![f].rep = DataReply("InvalidArgument", "url required")]
       ELSE IF FindId(objects, id) # {}
       THEN /\ objects' = objects
            /\ ft' = [ft EXCEPT ![f].rep =
                            DataReply("AlreadyExists", "object already exists")]
       ELSE /\ objects' = objects \cup {NewObject(id)}
            /\ ft' = [ft EXCEPT ![f] = [FetchNone EXCEPT
                            !.pc = "start", !.id = id, !.rep = DataReply("OK", "")]]

\* The fetch task calls Update with the request of its position.
FetchUpdate(f) ==
    /\ ft[f].pc \in {"start", "failed", "copied"}
    /\ UpdateBegin(f, FetchRequest(ft[f]))

\* The fetch task takes the reply of its Update. A failed INPROGRESS ends
\* the task; a failed ERROR or DONE is logged and the task ends as well.
FetchAfterUpdate(f) ==
    /\ up[f].pc = "replied"
    /\ up' = [up EXCEPT ![f] = UpdateIdle]
    /\ UNCHANGED <<objects, logVars, projVars, nodeVars, storageVars, diffVars>>
    /\ LET ok == up[f].rep.code = "OK"
       IN  IF ft[f].pc = "start"
           THEN ft' = [ft EXCEPT ![f].pc = IF ok THEN "upload" ELSE "ended",
                                 ![f].rep = up[f].rep]
           ELSE ft' = [ft EXCEPT ![f].pc = "ended",
                                 ![f].applied = IF ok THEN FetchRequest(ft[f]).state ELSE "",
                                 ![f].rep = up[f].rep]

\* The transfer: it fails with an error text or yields the hash.
FetchUpload(f, err) ==
    /\ ft[f].pc = "upload"
    /\ ft' = [ft EXCEPT ![f].pc = IF err # "" THEN "failed" ELSE "copied",
                         ![f].err = err,
                         ![f].hash = IF err # "" THEN "" ELSE "sha256:h"]
    /\ UNCHANGED <<dataVars, logVars, projVars, nodeVars, storageVars, diffVars>>

\* ---------------------------------------------------------------- the Upload helper
\* A mutant of HelperRequest: after a failed PUT the helper asks for DONE.
HelperRequestDoneOnFailure(t) ==
    CASE t.pc = "start" ->
            [id |-> t.id, state |-> "INPROGRESS", error |-> "", hash |-> ""]
      [] OTHER ->
            [id |-> t.id, state |-> "DONE", error |-> "", hash |-> t.hash]

\* The request the helper makes at its position: INPROGRESS before the
\* PUT, ERROR with the error text after a failed one, DONE with the hash
\* after a successful one.
HelperRequest(t) ==
    CASE t.pc = "start" ->
            [id |-> t.id, state |-> "INPROGRESS", error |-> "", hash |-> ""]
      [] t.pc = "failed" ->
            [id |-> t.id, state |-> "ERROR", error |-> t.err, hash |-> ""]
      [] OTHER ->
            [id |-> t.id, state |-> "DONE", error |-> "", hash |-> t.hash]

\* The helper calls the service's Upload: the object is inserted in state
\* CREATED and a signed PUT url is made for it. When the backend signs no
\* urls the call fails after the insert and the helper returns the error.
HelperUpload(l, id, signed) ==
    /\ ft[l].pc = "none"
    /\ ft[l].rep.code = ""
    /\ UNCHANGED <<up, logVars, projVars, nodeVars, storageVars, diffVars>>
    /\ IF FindId(objects, id) # {}
       THEN /\ objects' = objects
            /\ ft' = [ft EXCEPT ![l] = [FetchNone EXCEPT !.pc = "ended",
                            !.rep = DataReply("AlreadyExists", "object already exists")]]
       ELSE /\ objects' = objects \cup {NewObject(id)}
            /\ ft' = [ft EXCEPT ![l] =
                        IF signed
                        THEN [FetchNone EXCEPT !.pc = "start", !.id = id]
                        ELSE [FetchNone EXCEPT !.pc = "ended", !.id = id,
                                !.rep = DataReply("Unknown", "signed urls are not supported")]]

\* The helper calls Update with the request of its position.
HelperUpdate(l) ==
    /\ ft[l].pc \in {"start", "failed", "copied"}
    /\ UpdateBegin(l, HelperRequest(ft[l]))

\* The PUT: it fails with an error text or yields the hash.
HelperPut(l, err) ==
    /\ ft[l].pc = "upload"
    /\ ft' = [ft EXCEPT ![l].pc = IF err # "" THEN "failed" ELSE "copied",
                         ![l].err = err,
                         ![l].hash = IF err # "" THEN "" ELSE "sha256:h"]
    /\ UNCHANGED <<dataVars, logVars, projVars, nodeVars, storageVars, diffVars>>

\* The helper takes the reply of its Update: it returns an error when the
\* Update failed and after a failed PUT, and the id after DONE was applied.
HelperAfterUpdate(l) ==
    /\ up[l].pc = "replied"
    /\ up' = [up EXCEPT ![l] = UpdateIdle]
    /\ UNCHANGED <<objects, logVars, projVars, nodeVars, storageVars, diffVars>>
    /\ LET ok == up[l].rep.code = "OK"
       IN  CASE ft[l].pc = "start" ->
                    ft' = [ft EXCEPT
                            ![l].pc = IF ok THEN "upload" ELSE "ended",
                            ![l].rep = IF ok THEN DataReply("", "")
                                       ELSE DataReply("Unknown", "failed to set to in progress")]
             [] ft[l].pc = "failed" ->
                    ft' = [ft EXCEPT
                            ![l].pc = "ended",
                            ![l].applied = IF ok THEN "ERROR" ELSE "",
                            ![l].rep = IF ok THEN DataReply("Unknown", ft[l].err)
                                       ELSE DataReply("Unknown", "failed to set ERROR state")]
             [] OTHER ->
                    ft' = [ft EXCEPT
                            ![l].pc = "ended",
                            ![l].applied = IF ok THEN "DONE" ELSE "",
                            ![l].rep = IF ok THEN DataReply("OK", "")
                                       ELSE DataReply("Unknown", "failed to set DONE state")]

\* The helper, while other callers describe and get the object.
HelperNext ==
    \/ \E l \in Uploaders, id \in ObjIds, signed \in BOOLEAN : HelperUpload(l, id, signed)
    \/ \E l \in Uploaders : HelperUpdate(l)
    \/ \E l \in Uploaders : UpdateWrite(l)
    \/ \E l \in Uploaders, err \in ErrorTexts : HelperPut(l, err)
    \/ \E l \in Uploaders : HelperAfterUpdate(l)
    \/ DataReadNext(Updaters)
    \/ \E u \in Updaters : UpdateReturn(u)

\* No Import has been made.
FetchInit == ft = [f \in Fetchers \cup Uploaders |-> FetchNone]

\* Import, its fetch task, and the Updates of another caller.
ImportNext ==
    \/ \E f \in Fetchers, id \in ObjIds, url \in Urls : Import(f, id, url)
    \/ \E f \in Fetchers : FetchUpdate(f)
    \/ \E f \in Fetchers : UpdateWrite(f)
    \/ \E f \in Fetchers : FetchAfterUpdate(f)
    \/ \E f \in Fetchers, err \in ErrorTexts : FetchUpload(f, err)
    \/ \E req \in UpdateRequests : UpdateBegin("u1", req)
    \/ UpdateWrite("u1")
    \/ UpdateReturn("u1")

\* ---------------------------------------------------------------- local storage
\* A path below the bucket directory is the sequence of its components;
\* <<>> is the bucket directory itself. The base directory always exists.
Parent(p) == SubSeq(p, 1, Len(p) - 1)

Prefixes(p) == {SubSeq(p, 1, k) : k \in 0..Len(p)}

\* The file system: the directories, and the content of every file.
NoFiles == [p \in {} |-> <<>>]

EmptyFS == [dirs |-> {}, files |-> NoFiles]

IsFile(fs, p) == p \in DOMAIN fs.files

IsDir(fs, p) == p \in fs.dirs

\* The files with p holding data.
PutFile(files, p, data) ==
    [q \in DOMAIN files \cup {p} |-> IF q = p THEN data ELSE files[q]]

\* The files without p.
DropFile(files, p) == [q \in DOMAIN files \ {p} |-> files[q]]

FSResult(err, fs) == [err |-> err, fs |-> fs]

\* os.MkdirAll: every missing directory on the path is made; a file on the
\* path is an error.
MkdirAll(fs, p) ==
    IF \E q \in Prefixes(p) : IsFile(fs, q)
    THEN FSResult("ENOTDIR", fs)
    ELSE FSResult("", [fs EXCEPT !.dirs = @ \cup Prefixes(p)])

\* os.OpenFile with O_CREATE|O_WRONLY|O_EXCL: an empty file is made; the
\* path must not exist and its directory must.
OpenFile(fs, p) ==
    IF IsFile(fs, p) \/ IsDir(fs, p)
    THEN FSResult("EEXIST", fs)
    ELSE IF ~IsDir(fs, Parent(p))
    THEN FSResult("ENOENT", fs)
    ELSE FSResult("", [fs EXCEPT !.files = PutFile(@, p, <<>>)])

\* A mutant of Rename: a file that exists at the destination is kept.
RenameKeepsDest(fs, src, dst) ==
    IF ~IsFile(fs, src) \/ ~IsDir(fs, Parent(dst))
    THEN FSResult("ENOENT", fs)
    ELSE IF IsDir(fs, dst)
    THEN FSResult("EISDIR", fs)
    ELSE IF src = dst
    THEN FSResult("", fs)
    ELSE IF IsFile(fs, dst)
    THEN FSResult("", [fs EXCEPT !.files = DropFile(@, src)])
    ELSE FSResult("", [fs EXCEPT !.files = PutFile(DropFile(@, src), dst, fs.files[src])])

\* os.Rename of a file (the objects moved here are never directories): the
\* source must exist and so must the directory of the destination; a
\* directory at the destination is an error, a file there is replaced.
Rename(fs, src, dst) ==
    IF ~IsFile(fs, src) \/ ~IsDir(fs, Parent(dst))
    THEN FSResult("ENOENT", fs)
    ELSE IF IsDir(fs, dst)
    THEN FSResult("EISDIR", fs)
    ELSE IF src = dst
    THEN FSResult("", fs)
    ELSE FSResult("", [fs EXCEPT !.files = PutFile(DropFile(@, src), dst, fs.files[src])])

\* os.Remove: a file or an empty directory.
Remove(fs, p) ==
    IF IsFile(fs, p)
    THEN FSResult("", [fs EXCEPT !.files = DropFile(@, p)])
    ELSE IF ~IsDir(fs, p)
    THEN FSResult("ENOENT", fs)
    ELSE IF \E q \in fs.dirs \cup DOMAIN fs.files : q # p /\ p \in Prefixes(q)
    THEN FSResult("ENOTEMPTY", fs)
    ELSE FSResult("", [fs EXCEPT !.dirs = @ \ {p}])

\* os.RemoveAll on the bucket directory: everything below it goes, and a
\* missing directory is no error.
RemoveAll(fs) == FSResult("", EmptyFS)

\* os.Open: the path must exist.
Open(fs, p) ==
    IF IsFile(fs, p) \/ IsDir(fs, p) THEN FSResult("", fs) ELSE FSResult("ENOENT", fs)

\* The object names and the contents of the client below.
SrcNames == {<<"dir", "test.csv">>, <<"foo.csv">>}
DstNames == {<<"foo.csv">>, <<"x", "foo.csv">>, <<"dir">>, <<"dir", "test.csv">>}
Texts == {<<>>, <<1>>, <<1, 2>>}

\* What the bucket may hold before the client starts: nothing, an object
\* foo.csv, an object dir/test.csv.
Buckets ==
    {EmptyFS,
     [dirs |-> {<<>>}, files |-> PutFile(NoFiles, <<"foo.csv">>, <<2>>)],
     [dirs |-> {<<>>, <<"dir">>}, files |-> PutFile(NoFiles, <<"dir", "test.csv">>, <<2>>)]}

\* The client of TestLocal before it starts.
ClientIdle ==
    [pc |-> "idle", src |-> <<>>, dst |-> <<>>, text |-> <<>>, obj |-> <<>>,
     n |-> 0, out |-> <<>>, failed |-> {}]

outsideStorage == <<logVars, dataVars, projVars, nodeVars, fetchVars, diffVars>>

\* The client picks the object name, the name to move to and the text.
TestBegin(src, dst, text) ==
    /\ tc.pc = "idle"
    /\ tc' = [ClientIdle EXCEPT !.pc = "create", !.src = src, !.dst = dst,
                                !.text = text, !.obj = src]
    /\ UNCHANGED <<fsys, outsideStorage>>

\* bucket.Create; the client stops when it fails.
BucketCreate ==
    /\ tc.pc = "create"
    /\ LET r == MkdirAll(fsys, <<>>)
       IN  /\ fsys' = r.fs
           /\ tc' = IF r.err # ""
                    THEN [tc EXCEPT !.pc = "done", !.failed = @ \cup {"create"}]
                    ELSE [tc EXCEPT !.pc = "writer"]
    /\ UNCHANGED outsideStorage

\* object.Writer: the enclosing directory is made and the file created;
\* on an error the client goes on to the move.
Writer ==
    /\ tc.pc = "writer"
    /\ LET m == MkdirAll(fsys, Parent(tc.obj))
           r == IF m.err # "" THEN m ELSE OpenFile(m.fs, tc.obj)
       IN  /\ fsys' = r.fs
           /\ tc' = IF r.err # ""
                    THEN [tc EXCEPT !.pc = "move", !.failed = @ \cup {"writer"}]
                    ELSE [tc EXCEPT !.pc = "copy", !.n = 0]
    /\ UNCHANGED outsideStorage

\* io.Copy into the writer, a byte at a time.
WriterWrite ==
    /\ tc.pc = "copy"
    /\ tc.n < Len(tc.text)
    /\ fsys' = [fsys EXCEPT !.files[tc.obj] = Append(@, tc.text[tc.n + 1])]
    /\ tc' = [tc EXCEPT !.n = @ + 1]
    /\ UNCHANGED outsideStorage

\* The writer is closed after the last byte.
WriterClose ==
    /\ tc.pc = "copy"
    /\ tc.n = Len(tc.text)
    /\ tc' = [tc EXCEPT !.pc = "move"]
    /\ UNCHANGED <<fsys, outsideStorage>>

\* object.Move: the file is renamed within the bucket. The object returned
\* on an error is nil, and the client's next call on it panics.
Move ==
    /\ tc.pc = "move"
    /\ LET r == Rename(fsys, tc.obj, tc.dst)
       IN  /\ fsys' = r.fs
           /\ tc' = IF r.err # ""
                    THEN [tc EXCEPT !.pc = "panic", !.failed = @ \cup {"move"}]
                    ELSE [tc EXCEPT !.pc = "reader", !.obj = tc.dst]
    /\ UNCHANGED outsideStorage

\* object.Reader: the file is opened; on an error the client goes on to
\* the delete.
Reader ==
    /\ tc.pc = "reader"
    /\ LET r == Open(fsys, tc.obj)
       IN  tc' = IF r.err # ""
                 THEN [tc EXCEPT !.pc = "delete", !.failed = @ \cup {"reader"}]
                 ELSE [tc EXCEPT !.pc = "read", !.n = 0, !.out = <<>>]
    /\ UNCHANGED <<fsys, outsideStorage>>

\* io.Copy from the reader, a byte at a time.
ReaderRead ==
    /\ tc.pc = "read"
    /\ tc.n < Len(fsys.files[tc.obj])
    /\ tc' = [tc EXCEPT !.n = @ + 1, !.out = Append(@, fsys.files[tc.obj][tc.n + 1])]
    /\ UNCHANGED <<fsys, outsideStorage>>

\* At the end of the file what was read is compared with the text.
ReaderCompare ==
    /\ tc.pc = "read"
    /\ tc.n = Len(fsys.files[tc.obj])
    /\ tc' = [tc EXCEPT !.pc = "delete",
                        !.failed = IF tc.out # tc.text THEN @ \cup {"compare"} ELSE @]
    /\ UNCHANGED <<fsys, outsideStorage>>

\* object.Delete.
ObjectDelete ==
    /\ tc.pc = "delete"
    /\ LET r == Remove(fsys, tc.obj)
       IN  /\ fsys' = r.fs
           /\ tc' = [tc EXCEPT !.pc = "bucketDelete",
                               !.failed = IF r.err # "" THEN @ \cup {"delete"} ELSE @]
    /\ UNCHANGED outsideStorage

\* bucket.Delete.
BucketDelete ==
    /\ tc.pc = "bucketDelete"
    /\ LET r == RemoveAll(fsys)
       IN  /\ fsys' = r.fs
           /\ tc' = [tc EXCEPT !.pc = "done",
                               !.failed = IF r.err # "" THEN @ \cup {"bucketDelete"} ELSE @]
    /\ UNCHANGED outsideStorage

\* An empty base directory and a client that has not started.
StorageInit ==
    /\ fsys = EmptyFS
    /\ tc = ClientIdle

StorageNext ==
    \/ \E src \in SrcNames, dst \in DstNames, text \in Texts : TestBegin(src, dst, text)
    \/ BucketCreate
    \/ Writer
    \/ WriterWrite
    \/ WriterClose
    \/ Move
    \/ Reader
    \/ ReaderRead
    \/ ReaderCompare
    \/ ObjectDelete
    \/ BucketDelete

\* ---------------------------------------------------------------- workflow graphs
\* strings.ToLower on the names of the model.
ToLower(n) ==
    IF n = "P" THEN "p" ELSE IF n = "Q" THEN "q" ELSE n

\* A workflow source is a YAML document: a mapping from node key to node,
\* written as the sequence of its entries.
Entry(k, t, title, input, output) ==
    [key |-> k, node |-> [type |-> t, title |-> title, input |-> input, output |-> output]]

\* A document that does not parse: an unclosed flow mapping.
Malformed == <<Entry("{", "", "", <<>>, <<>>)>>

\* The documents UpdateWorkflow is called with.
Sources ==
    { <<>>,
      Malformed,
      <<Entry("a", "data", "A", <<>>, <<>>)>>,
      <<Entry("a", "data", "B", <<"y">>, <<>>)>>,
      <<Entry("a", "compute", "A", <<>>, <<>>)>>,
      <<Entry("a", "data", "", <<>>, <<>>)>>,
      <<Entry("a", "data", "A", <<>>, <<>>), Entry("b", "bogus", "A", <<>>, <<>>)>>,
      <<Entry("b", "bogus", "A", <<>>, <<>>), Entry("a", "data", "A", <<>>, <<>>)>> }

\* A graph is its node map: a function from the keys present to nodes.
EmptyGraph == [k \in {} |-> 0]

\* ParseSource: yaml.Unmarshal into the node map; ok is FALSE for a
\* document that does not parse.
ParseSource(source) ==
    IF source = Malformed
    THEN [ok |-> FALSE, nodes |-> EmptyGraph]
    ELSE [ok |-> TRUE,
          nodes |-> [k \in {source[i].key : i \in 1..Len(source)} |->
                        (CHOOSE e \in {source[i] : i \in 1..Len(source)} : e.key = k).node]]

\* The elements of a list.
Items(l) == {l[i] : i \in 1..Len(l)}

\* A mutant of DiffSlice: the empty delta is returned as an empty map,
\* not as nil.
DiffSliceNeverNil(a, b) ==
    [nil |-> FALSE,
     d |-> [x \in (Items(b) \ Items(a)) \cup (Items(a) \ Items(b)) |-> x \in Items(b)]]

\* DiffSlice: item |-> TRUE when only in b, FALSE when only in a; nil when
\* there is no such item.
DiffSlice(a, b) ==
    LET d == [x \in (Items(b) \ Items(a)) \cup (Items(a) \ Items(b)) |-> x \in Items(b)]
    IN  [nil |-> DOMAIN d = {}, d |-> d]

\* A mutant of DiffNode: the titles are recorded whether they differ or not.
DiffNodeAlwaysTitles(a, b) ==
    LET input == DiffSlice(a.input, b.input)
        output == DiffSlice(a.output, b.output)
    IN  [nil |-> ~(a.title # "" \/ ~input.nil \/ ~output.nil),
         from |-> a.title, to |-> b.title, input |-> input, output |-> output]

\* DiffNode: the title change and the input and output deltas; nil when
\* FromTitle is empty and both deltas are nil.
DiffNode(a, b) ==
    LET from == IF a.title # b.title THEN a.title ELSE ""
        to == IF a.title # b.title THEN b.title ELSE ""
        input == DiffSlice(a.input, b.input)
        output == DiffSlice(a.output, b.output)
    IN  [nil |-> ~(from # "" \/ ~input.nil \/ ~output.nil),
         from |-> from, to |-> to, input |-> input, output |-> output]

\* A mutant of DiffGraph: every key of b counts as added.
DiffGraphAddsAll(a, b) ==
    LET removed == [k \in DOMAIN a \ DOMAIN b |-> a[k]]
        changed == [k \in {x \in DOMAIN a \cap DOMAIN b : ~DiffNode(a[x], b[x]).nil} |->
                        DiffNode(a[k], b[k])]
        added == [k \in DOMAIN b |-> b[k]]
    IN  [nil |-> ~(DOMAIN added # {} \/ DOMAIN removed # {} \/ DOMAIN changed # {}),
         added |-> added, removed |-> removed, changed |-> changed]

\* DiffGraph: the added, removed and changed nodes; nil when there are none.
DiffGraph(a, b) ==
    LET removed == [k \in DOMAIN a \ DOMAIN b |-> a[k]]
        changed == [k \in {x \in DOMAIN a \cap DOMAIN b : ~DiffNode(a[x], b[x]).nil} |->
                        DiffNode(a[k], b[k])]
        added == [k \in DOMAIN b \ DOMAIN a |-> b[k]]
    IN  [nil |-> ~(DOMAIN added # {} \/ DOMAIN removed # {} \/ DOMAIN changed # {}),
         added |-> added, removed |-> removed, changed |-> changed]

\* ---------------------------------------------------------------- DiffGraph called on its own
\* The input and output lists of the nodes the diff is called with: the
\* same items in another order, and an item listed twice.
ItemLists == {<<>>, <<"x">>, <<"x", "y">>, <<"y", "x">>, <<"x", "x">>}

\* The nodes under key a and under key b of those graphs.
NodesA == [type : {"data"}, title : {"", "A", "B"}, input : ItemLists,
           output : {<<>>, <<"z">>}]
NodesB == [type : {"data", "compute"}, title : {"B"}, input : {<<>>}, output : {<<>>}]

\* The graphs: a node under a or none, a node under b or none.
Graphs ==
    {EmptyGraph}
    \cup {[k \in {"a"} |-> n] : n \in NodesA}
    \cup {[k \in {"b"} |-> n] : n \in NodesB}
    \cup {[k \in {"a", "b"} |-> IF k = "a" THEN n ELSE m] : n \in NodesA, m \in NodesB}

\* No call made yet: the arguments, and an empty place for the result.
DiffCall(a, b) ==
    [a |-> a, b |-> b, called |-> FALSE, gd |-> DiffGraph(EmptyGraph, EmptyGraph)]

\* DiffGraph(a, b) is called and returns.
DiffGraphCall ==
    /\ ~df.called
    /\ df' = [df EXCEPT !.called = TRUE, !.gd = DiffGraph(df.a, df.b)]
    /\ UNCHANGED <<logVars, dataVars, projVars, nodeVars, fetchVars, storageVars>>

\* The caller drops the result.
DiffGraphReturn ==
    /\ df.called
    /\ df' = DiffCall(df.a, df.b)
    /\ UNCHANGED <<logVars, dataVars, projVars, nodeVars, fetchVars, storageVars>>

\* No diff is called on its own.
DiffInit == df = DiffCall(EmptyGraph, EmptyGraph)

DiffNext == DiffGraphCall \/ DiffGraphReturn

\* ---------------------------------------------------------------- events on the bus
\* An event as published on events.project: the envelope's project and
\* type and the fields of its JSON payload (the revision id, the node key
\* and the fields the type carries; the others are empty).
BusEvent(project, type, wid, key, ntype, title, from, item) ==
    [project |-> project, type |-> type, wid |-> wid, key |-> key,
     ntype |-> ntype, title |-> title, from |-> from, item |-> item,
     files |-> <<>>]

ProjectEvent(project, type, name) == BusEvent(project, type, 0, "", "", name, "", "")

\* The enumerations of a set: the orders a Go map may be ranged over in.
Perms(S) ==
    {f \in [1..Cardinality(S) -> S] : \A i, j \in 1..Cardinality(S) : i # j => f[i] # f[j]}

RECURSIVE Concat(_)
Concat(seqs) == IF seqs = <<>> THEN <<>> ELSE Head(seqs) \o Concat(Tail(seqs))

\* A mutant of ChangedEvents: the input events come before the rename.
ChangedEventsInputsFirst(project, wid, k, nd, pin, pout) ==
    [i \in 1..Len(pin) |->
            BusEvent(project, IF nd.input.d[pin[i]] THEN "node.input-added"
                              ELSE "node.input-removed", wid, k, "", "", "", pin[i])]
    \o (IF nd.to # ""
        THEN <<BusEvent(project, "node.renamed", wid, k, "", nd.to, nd.from, "")>>
        ELSE <<>>)
    \o [i \in 1..Len(pout) |->
            BusEvent(project, IF nd.output.d[pout[i]] THEN "node.output-added"
                              ELSE "node.output-removed", wid, k, "", "", "", pout[i])]

\* The events of one changed node: the rename when ToTitle is not empty,
\* then one per input delta in the order pin, then one per output delta in
\* the order pout.
ChangedEvents(project, wid, k, nd, pin, pout) ==
    (IF nd.to # ""
     THEN <<BusEvent(project, "node.renamed", wid, k, "", nd.to, nd.from, "")>>
     ELSE <<>>)
    \o [i \in 1..Len(pin) |->
            BusEvent(project, IF nd.input.d[pin[i]] THEN "node.input-added"
                              ELSE "node.input-removed", wid, k, "", "", "", pin[i])]
    \o [i \in 1..Len(pout) |->
            BusEvent(project, IF nd.output.d[pout[i]] THEN "node.output-added"
                              ELSE "node.output-removed", wid, k, "", "", "", pout[i])]

\* The sequences of events UpdateWorkflow may publish for the diff gd:
\* added nodes, removed nodes, changed nodes, each map in any order.
Emissions(gd, project, wid) ==
    LET C == DOMAIN gd.changed
        Orders(k) == Perms(DOMAIN gd.changed[k].input.d) \X Perms(DOMAIN gd.changed[k].output.d)
        Choices == {f \in [C -> UNION {Orders(k) : k \in C}] : \A k \in C : f[k] \in Orders(k)}
    IN  {   [i \in 1..Len(pa) |->
                BusEvent(project, "node.added", wid, pa[i], gd.added[pa[i]].type,
                         gd.added[pa[i]].title, "", "")]
         \o [i \in 1..Len(pr) |->
                BusEvent(project, "node.removed", wid, pr[i], gd.removed[pr[i]].type,
                         gd.removed[pr[i]].title, "", "")]
         \o Concat([i \in 1..Len(pc) |->
                ChangedEvents(project, wid, pc[i], gd.changed[pc[i]],
                              ch[pc[i]][1], ch[pc[i]][2])])
         : pa \in Perms(DOMAIN gd.added), pr \in Perms(DOMAIN gd.removed),
           pc \in Perms(C), ch \in Choices }

\* Publish: the bus hands the event to the services subs that are
\* subscribed to events.>.
Publish(box, subs, e) ==
    [s \in DOMAIN box |-> IF s \in subs THEN Append(box[s], e) ELSE box[s]]

\* ---------------------------------------------------------------- project service
\* The error a handler returns that is not a status: the transport reports
\* it with code Unknown.
RawError(text) == [code |-> "Unknown", text |-> text, id |-> ""]

ProjectReply(code, text, id) == [code |-> code, text |-> text, id |-> id]

\* A stored project: _name is the lower-cased name the unique index is on.
NewProject(id, account, name) ==
    [id |-> id, account |-> account, name |-> name, normName |-> ToLower(name),
     workflows |-> <<>>]

\* A mutant of Dup: the unique index compares the names as given.
DupByName(col, d) ==
    \E o \in col : o.id # d.id /\ o.account = d.account /\ o.name = d.name

\* mgo.IsDup: storing d breaks the unique index on (account, _name).
Dup(col, d) ==
    \E o \in col : o.id # d.id /\ o.account = d.account /\ o.normName = d.normName

\* The documents matching q = {_id, account}.
FindProject(col, id, account) == {o \in col : o.id = id /\ o.account = account}

\* The nodes of the last stored revision: GetProject with $slice -1.
CurrentNodes(p) ==
    IF Len(p.workflows) = 0 THEN EmptyGraph ELSE p.workflows[Len(p.workflows)].nodes

ProjectIdle ==
    [pc |-> "idle", op |-> "", id |-> "", account |-> "", source |-> <<>>, wid |-> 0,
     evs |-> <<>>, rep |-> ProjectReply("", "", "")]

ProjectReplied(rep) == [ProjectIdle EXCEPT !.pc = "replied", !.rep = rep]

\* The state write is stored: the handler goes on to publish evs and then
\* returns rep.
Publishing(op, evs, rep) ==
    [ProjectIdle EXCEPT !.pc = "publish", !.op = op, !.evs = evs, !.rep = rep]

\* The handler goes on after its state write: to publishing when there is
\* an event to publish, else to its return.
AfterWrite(op, evs, rep) ==
    IF evs = <<>> THEN ProjectReplied(rep) ELSE Publishing(op, evs, rep)

\* CreateProject up to its Insert; id is the uuid it draws.
CreateProject(h, req, id) ==
    /\ pj[h].pc = "idle"
    /\ id \notin uuids
    /\ UNCHANGED <<nextWid, inbox, outsideProject>>
    /\ IF req.account = ""
       THEN /\ pj' = [pj EXCEPT ![h] = ProjectReplied(
                        ProjectReply("InvalidArgument", "account required", ""))]
            /\ UNCHANGED <<projects, uuids>>
       ELSE IF req.name = ""
       THEN /\ pj' = [pj EXCEPT ![h] = ProjectReplied(
                        ProjectReply("InvalidArgument", "name required", ""))]
            /\ UNCHANGED <<projects, uuids>>
       ELSE IF Dup(projects, NewProject(id, req.account, req.name))
       THEN /\ pj' = [pj EXCEPT ![h] = ProjectReplied(
                        ProjectReply("AlreadyExists", "project already exists", ""))]
            /\ UNCHANGED <<projects, uuids>>
       ELSE /\ projects' = projects \cup {NewProject(id, req.account, req.name)}
            /\ uuids' = uuids \cup {id}
            /\ pj' = [pj EXCEPT ![h] = AfterWrite("CreateProject",
                        <<ProjectEvent(id, "project.created", req.name)>>,
                        ProjectReply("OK", "", id))]

\* UpdateProject up to its Update.
UpdateProject(h, req) ==
    /\ pj[h].pc = "idle"
    /\ UNCHANGED <<uuids, nextWid, inbox, outsideProject>>
    /\ IF req.name = ""
       THEN /\ pj' = [pj EXCEPT ![h] = ProjectReplied(
                        ProjectReply("InvalidArgument", "name required", ""))]
            /\ UNCHANGED projects
       ELSE IF FindProject(projects, req.id, req.account) = {}
       THEN /\ pj' = [pj EXCEPT ![h] = ProjectReplied(RawError("not found"))]
            /\ UNCHANGED projects
       ELSE LET p == CHOOSE o \in FindProject(projects, req.id, req.account) : TRUE
                u == [p EXCEPT !.name = req.name, !.normName = ToLower(req.name)]
            IN  IF Dup(projects, u)
                THEN /\ pj' = [pj EXCEPT ![h] = ProjectReplied(
                                ProjectReply("AlreadyExists", "project already exists", ""))]
                     /\ UNCHANGED projects
                ELSE /\ projects' = (projects \ {p}) \cup {u}
                     /\ pj' = [pj EXCEPT ![h] = AfterWrite("UpdateProject",
                                <<ProjectEvent(req.id, "project.updated", req.name)>>,
                                ProjectReply("OK", "", ""))]

\* DeleteProject up to its Remove.
DeleteProject(h, req) ==
    /\ pj[h].pc = "idle"
    /\ UNCHANGED <<uuids, nextWid, inbox, outsideProject>>
    /\ IF FindProject(projects, req.id, req.account) = {}
       THEN /\ pj' = [pj EXCEPT ![h] = ProjectReplied(
                        ProjectReply("NotFound", "project not found", ""))]
            /\ UNCHANGED projects
       ELSE /\ projects' = projects \ FindProject(projects, req.id, req.account)
            /\ pj' = [pj EXCEPT ![h] = AfterWrite("DeleteProject",
                        <<ProjectEvent(req.id, "project.deleted", "")>>,
                        ProjectReply("OK", "", ""))]

\* GetProject: the project of the account with its last revision.
GetProject(h, req) ==
    /\ pj[h].pc = "idle"
    /\ UNCHANGED <<projects, uuids, nextWid, inbox, outsideProject>>
    /\ pj' = [pj EXCEPT ![h] =
                IF FindProject(projects, req.id, req.account) = {}
                THEN ProjectReplied(ProjectReply("NotFound", "project not found", ""))
                ELSE ProjectReplied(ProjectReply("OK", "", req.id))]

\* UpdateWorkflow up to the diff: ParseSource, GetProject, DiffGraph, and
\* the revision id it draws.
UpdateWorkflowBegin(h, req) ==
    /\ pj[h].pc = "idle"
    /\ UNCHANGED <<projects, uuids, inbox, outsideProject>>
    /\ IF ~ParseSource(req.source).ok
       THEN /\ pj' = [pj EXCEPT ![h] = ProjectReplied(
                        ProjectReply("InvalidArgument", "yaml: did not find expected node content", ""))]
            /\ UNCHANGED nextWid
       ELSE IF FindProject(projects, req.id, req.account) = {}
       THEN /\ pj' = [pj EXCEPT ![h] = ProjectReplied(
                        ProjectReply("NotFound", "project not found", ""))]
            /\ UNCHANGED nextWid
       ELSE LET p == CHOOSE o \in FindProject(projects, req.id, req.account) : TRUE
                gd == DiffGraph(CurrentNodes(p), ParseSource(req.source).nodes)
            IN  IF gd.nil
                THEN /\ pj' = [pj EXCEPT ![h] = ProjectReplied(
                                ProjectReply("FailedPrecondition", "nothing changed", ""))]
                     /\ UNCHANGED nextWid
                ELSE /\ nextWid <= MaxRevisions
                     /\ nextWid' = nextWid + 1
                     /\ \E evs \in Emissions(gd, req.id, nextWid) :
                            pj' = [pj EXCEPT ![h] = [ProjectIdle EXCEPT
                                    !.pc = "push", !.op = "UpdateWorkflow",
                                    !.id = req.id, !.account = req.account,
                                    !.source = req.source, !.wid = nextWid,
                                    !.evs = evs]]

\* UpdateWorkflow's $push of the new revision.
UpdateWorkflowPush(h) ==
    /\ pj[h].pc = "push"
    /\ UNCHANGED <<uuids, nextWid, inbox, outsideProject>>
    /\ IF FindProject(projects, pj[h].id, pj[h].account) = {}
       THEN /\ pj' = [pj EXCEPT ![h] = ProjectReplied(RawError("not found"))]
            /\ UNCHANGED projects
       ELSE LET p == CHOOSE o \in FindProject(projects, pj[h].id, pj[h].account) : TRUE
                w == [id |-> pj[h].wid, source |-> pj[h].source,
                      nodes |-> ParseSource(pj[h].source).nodes]
            IN  /\ projects' = (projects \ {p}) \cup
                                {[p EXCEPT !.workflows = Append(p.workflows, w)]}
                /\ pj' = [pj EXCEPT ![h] = AfterWrite("UpdateWorkflow", pj[h].evs,
                                                      ProjectReply("OK", "", ""))]

\* A mutant of ProjectPublish: a publish that fails ends the operation
\* with the error.
ProjectPublishReturnsError(h, ok, subs) ==
    /\ pj[h].pc = "publish"
    /\ \A s \in subs : Len(inbox[s]) < MaxInbox
    /\ UNCHANGED <<projects, uuids, nextWid, outsideProject>>
    /\ inbox' = IF ok THEN Publish(inbox, subs, Head(pj[h].evs)) ELSE inbox
    /\ pj' = [pj EXCEPT ![h] = IF ok THEN AfterWrite(pj[h].op, Tail(pj[h].evs), pj[h].rep)
                               ELSE ProjectReplied(RawError("publish error"))]

\* logEvent: the next event is published to the subscribers subs, or the
\* publish fails and is only logged; after the last one the handler returns.
ProjectPublish(h, ok, subs) ==
    /\ pj[h].pc = "publish"
    /\ \A s \in subs : Len(inbox[s]) < MaxInbox
    /\ UNCHANGED <<projects, uuids, nextWid, outsideProject>>
    /\ inbox' = IF ok THEN Publish(inbox, subs, Head(pj[h].evs)) ELSE inbox
    /\ pj' = [pj EXCEPT ![h] = AfterWrite(pj[h].op, Tail(pj[h].evs), pj[h].rep)]

\* The caller takes the reply.
ProjectReturn(h) ==
    /\ pj[h].pc = "replied"
    /\ pj' = [pj EXCEPT ![h] = ProjectIdle]
    /\ UNCHANGED <<projects, uuids, nextWid, inbox, outsideProject>>

\* No project is stored, no event is on its way, the handlers are idle.
ProjectInit ==
    /\ projects = {}
    /\ uuids = {}
    /\ nextWid = 1
    /\ inbox = [s \in Subscribers |-> <<>>]
    /\ pj = [h \in ProjHandlers |-> ProjectIdle]

\* CreateProject, UpdateProject and DeleteProject called by handlers H for
\* accounts A with names N on project ids I.
ProjectCrudNext(H, A, N, I) ==
    \/ \E h \in H, a \in A, n \in N, id \in I :
            CreateProject(h, [account |-> a, name |-> n], id)
    \/ \E h \in H, a \in A, n \in N, id \in I :
            UpdateProject(h, [id |-> id, account |-> a, name |-> n])
    \/ \E h \in H, a \in A, id \in I :
            DeleteProject(h, [id |-> id, account |-> a])

\* The lists of file ids a request names.
FileLists == UNION {[1..k -> FileIds] : k \in 0..MaxFiles}

\* UpdateWorkflow called by handlers H for accounts A on project ids I
\* with the sources S.
WorkflowNext(H, A, I, S) ==
    \/ \E h \in H, a \in A, id \in I, src \in S :
            UpdateWorkflowBegin(h, [id |-> id, account |-> a, source |-> src])
    \/ \E h \in H : UpdateWorkflowPush(h)

\* The handlers H publish to the subscribers subs and return.
ProjectEndNext(H, OK, subs) ==
    \/ \E h \in H, ok \in OK : ProjectPublish(h, ok, subs)
    \/ \E h \in H : ProjectReturn(h)

\* ---------------------------------------------------------------- node projection
\* The names of enum NodeType.
NodeTypes == {"UNKNOWN", "DATA", "COMPUTE", "MANUAL", "FINDING"}

\* strings.ToUpper on the type strings of the model.
ToUpper(t) ==
    IF t = "data" THEN "DATA"
    ELSE IF t = "compute" THEN "COMPUTE"
    ELSE IF t = "bogus" THEN "BOGUS"
    ELSE t

\* decodeType: the enum value of the upper-cased name, UNKNOWN when there
\* is none.
decodeType(t) == IF ToUpper(t) \in NodeTypes THEN ToUpper(t) ELSE "UNKNOWN"

\* A file reference of a node.
File(id) == [id |-> id, name |-> "n"]

FileIdsOf(files) == {files[i].id : i \in 1..Len(files)}

\* The event a node operation logs: its payload is the node id and the
\* notes (in item) or the files.
NodeEvent(project, type, id, notes, files) ==
    [BusEvent(project, type, 0, id, "", "", "", notes) EXCEPT !.files = files]

NodeReply(code, text) == [code |-> code, text |-> text]

NodeOK == NodeReply("OK", "")

\* nodeHasIdent: neither the id nor the project is blank.
nodeHasIdent(req) == TrimSpace(req.id) # "" /\ TrimSpace(req.project) # ""

\* The documents of collection project with the given _id.
FindNode(tbl, project, id) == {n \in tbl : n.project = project /\ n.id = id}

\* Create: the reply and the node table after it.
CreateResult(tbl, req) ==
    IF ~nodeHasIdent(req)
    THEN [rep |-> NodeReply("InvalidArgument", "project and id required"), nodes |-> tbl]
    ELSE IF req.type = "UNKNOWN"
    THEN [rep |-> NodeReply("InvalidArgument", "type is required"), nodes |-> tbl]
    ELSE IF FindNode(tbl, req.project, req.id) # {}
    THEN [rep |-> NodeReply("AlreadyExists", "node already exists"), nodes |-> tbl]
    ELSE [rep |-> NodeOK,
          nodes |-> tbl \cup {[project |-> req.project, id |-> req.id, type |-> req.type,
                               title |-> req.title, notes |-> "", files |-> <<>>]}]

\* UpdateId with the update document f, a function from the node stored to
\* the node after the update: the reply and the table after it.
UpdateIdResult(tbl, req, f) ==
    IF FindNode(tbl, req.project, req.id) = {}
    THEN [rep |-> NodeReply("NotFound", "node does not exist"), nodes |-> tbl]
    ELSE [rep |-> NodeOK,
          nodes |-> (tbl \ FindNode(tbl, req.project, req.id)) \cup
                    {f[n] : n \in FindNode(tbl, req.project, req.id)}]

\* SetTitle: the reply and the node table after it.
SetTitleResult(tbl, req) ==
    IF ~nodeHasIdent(req)
    THEN [rep |-> NodeReply("InvalidArgument", "project and id required"), nodes |-> tbl]
    ELSE LET f == [n \in tbl |-> [n EXCEPT !.title = req.title]]
         IN  UpdateIdResult(tbl, req, f)

\* A mutant of Pull: the files left come out in the opposite order.
PullReorders(files, ids) ==
    LET left == SelectSeq(files, LAMBDA f : f.id \notin ids)
    IN  [i \in 1..Len(left) |-> left[Len(left) + 1 - i]]

\* The files left by $pull of the files whose id is in ids.
Pull(files, ids) == SelectSeq(files, LAMBDA f : f.id \notin ids)

\* ---- the event consumer
\* What the event handler returns for the reply of the operation it called:
\* return nil, err.
HandlerReturn(rep) == rep

NodeHandlerIdle == [pc |-> "idle", e |-> ProjectEvent("", "", ""), ret |-> NodeReply("", "")]

\* The handler is called with the next event of the subscription.
NodesDeliver(n) ==
    /\ nh[n].pc = "idle"
    /\ inbox["nodes"] # <<>>
    /\ nh' = [nh EXCEPT ![n] = [NodeHandlerIdle EXCEPT
                    !.pc = "handle", !.e = Head(inbox["nodes"])]]
    /\ inbox' = [inbox EXCEPT !["nodes"] = Tail(inbox["nodes"])]
    /\ UNCHANGED <<nodes, nr, projects, uuids, nextWid, pj, logVars, dataVars, otherVars>>

\* A mutant of HandleEvent: node.removed deletes the node.
HandleEventRemoves(tbl, e) ==
    IF e.type = "node.added"
    THEN CreateResult(tbl, [project |-> e.project, id |-> e.key,
                            type |-> decodeType(e.ntype), title |-> e.title])
    ELSE IF e.type = "node.renamed"
    THEN SetTitleResult(tbl, [project |-> e.project, id |-> e.key,
                              title |-> e.title])
    ELSE IF e.type = "node.removed"
    THEN [rep |-> NodeOK, nodes |-> tbl \ FindNode(tbl, e.project, e.key)]
    ELSE [rep |-> NodeOK, nodes |-> tbl]

\* The handler's switch on the event type: Create for node.added, SetTitle
\* for node.renamed, nothing for any other type.
HandleEvent(tbl, e) ==
    IF e.type = "node.added"
    THEN CreateResult(tbl, [project |-> e.project, id |-> e.key,
                            type |-> decodeType(e.ntype), title |-> e.title])
    ELSE IF e.type = "node.renamed"
    THEN SetTitleResult(tbl, [project |-> e.project, id |-> e.key,
                              title |-> e.title])
    ELSE [rep |-> NodeOK, nodes |-> tbl]

\* The node table after the handler has run on the events of stream, one
\* after the other, starting with the table tbl.
RECURSIVE Replay(_, _)
Replay(tbl, stream) ==
    IF stream = <<>> THEN tbl
    ELSE Replay(HandleEvent(tbl, Head(stream)).nodes, Tail(stream))

\* The handler runs on the event it was called with.
NodesHandle(n) ==
    /\ nh[n].pc = "handle"
    /\ UNCHANGED <<nr, outsideNodes>>
    /\ LET r == HandleEvent(nodes, nh[n].e)
       IN  /\ nodes' = r.nodes
           /\ nh' = [nh EXCEPT ![n] = [NodeHandlerIdle EXCEPT
                        !.pc = "returned", !.ret = HandlerReturn(r.rep)]]

\* The handler has returned; it is free for the next event.
NodesDone(n) ==
    /\ nh[n].pc = "returned"
    /\ nh' = [nh EXCEPT ![n] = NodeHandlerIdle]
    /\ UNCHANGED <<nodes, nr, outsideNodes>>


\* ---- the operations called directly
NodeCallIdle ==
    [pc |-> "idle", op |-> "", project |-> "", id |-> "", fileIds |-> <<>>,
     files |-> <<>>, evs |-> <<>>, rep |-> NodeReply("", "")]

NodeReplied(rep) == [NodeCallIdle EXCEPT !.pc = "replied", !.rep = rep]

\* The write is stored: the operation logs its event and returns.
NodeLogging(op, e) ==
    [NodeCallIdle EXCEPT !.pc = "publish", !.op = op, !.evs = <<e>>, !.rep = NodeOK]

\* Create called directly.
NodesCreate(r, req) ==
    /\ nr[r].pc = "idle"
    /\ nodes' = CreateResult(nodes, req).nodes
    /\ nr' = [nr EXCEPT ![r] = NodeReplied(CreateResult(nodes, req).rep)]
    /\ UNCHANGED <<nh, outsideNodes>>

\* SetTitle called directly.
NodesSetTitle(r, req) ==
    /\ nr[r].pc = "idle"
    /\ nodes' = SetTitleResult(nodes, req).nodes
    /\ nr' = [nr EXCEPT ![r] = NodeReplied(SetTitleResult(nodes, req).rep)]
    /\ UNCHANGED <<nh, outsideNodes>>

\* SetNotes up to its UpdateId.
NodesSetNotes(r, req) ==
    /\ nr[r].pc = "idle"
    /\ UNCHANGED <<nh, outsideNodes>>
    /\ IF ~nodeHasIdent(req)
       THEN /\ nr' = [nr EXCEPT ![r] = NodeReplied(
                        NodeReply("InvalidArgument", "project and id required"))]
            /\ UNCHANGED nodes
       ELSE LET f == [n \in nodes |-> [n EXCEPT !.notes = req.notes]]
                u == UpdateIdResult(nodes, req, f)
            IN  /\ nodes' = u.nodes
                /\ nr' = [nr EXCEPT ![r] =
                            IF u.rep # NodeOK THEN NodeReplied(u.rep)
                            ELSE NodeLogging("SetNotes", NodeEvent(req.project,
                                    "node.updated-notes", req.id, req.notes, <<>>))]

\* AddFiles up to its UpdateId: $push with $each appends the files in order.
AddFiles(r, req) ==
    /\ nr[r].pc = "idle"
    /\ UNCHANGED <<nh, outsideNodes>>
    /\ IF ~nodeHasIdent(req)
       THEN /\ nr' = [nr EXCEPT ![r] = NodeReplied(
                        NodeReply("InvalidArgument", "project and id required"))]
            /\ UNCHANGED nodes
       ELSE IF Len(req.files) = 0
       THEN /\ nr' = [nr EXCEPT ![r] = NodeReplied(
                        NodeReply("InvalidArgument", "no files specified"))]
            /\ UNCHANGED nodes
       ELSE LET f == [n \in nodes |-> [n EXCEPT !.files = n.files \o req.files]]
                u == UpdateIdResult(nodes, req, f)
            IN  /\ \A n \in FindNode(nodes, req.project, req.id) :
                        Len(n.files) + Len(req.files) <= MaxFiles
                /\ nodes' = u.nodes
                /\ nr' = [nr EXCEPT ![r] =
                            IF u.rep # NodeOK THEN NodeReplied(u.rep)
                            ELSE NodeLogging("AddFiles", NodeEvent(req.project,
                                    "node.added-files", req.id, "", req.files))]

\* A mutant of Attached: every requested id counts as attached.
AttachedAlways(files, id) == TRUE

\* The file id is among the node's files: fdx[id].
Attached(files, id) == id \in FileIdsOf(files)

\* The first requested id that is not attached, "" when all are.
FirstAbsent(files, ids) ==
    LET absent == {i \in 1..Len(ids) : ~Attached(files, ids[i])}
    IN  IF absent = {} THEN ""
        ELSE ids[CHOOSE i \in absent : \A j \in absent : i <= j]

\* The message of the error for an absent id (the id's quotes left out).
FileNotFound(id) == "file " \o id \o " does not exist"

\* The files of the node with the requested ids, in request order.
Requested(files, ids) ==
    [i \in 1..Len(ids) |->
        IF ids[i] \in FileIdsOf(files)
        THEN files[CHOOSE k \in 1..Len(files) :
                    /\ files[k].id = ids[i]
                    /\ \A m \in 1..Len(files) : files[m].id = ids[i] => m <= k]
        ELSE File(ids[i])]

\* RemoveFiles up to the check of the requested ids against the node read.
RemoveFilesBegin(r, req) ==
    /\ nr[r].pc = "idle"
    /\ UNCHANGED <<nodes, nh, outsideNodes>>
    /\ IF ~nodeHasIdent(req)
       THEN nr' = [nr EXCEPT ![r] = NodeReplied(
                        NodeReply("InvalidArgument", "project and id required"))]
       ELSE IF Len(req.fileIds) = 0
       THEN nr' = [nr EXCEPT ![r] = NodeReplied(
                        NodeReply("InvalidArgument", "no files specified"))]
       ELSE IF FindNode(nodes, req.project, req.id) = {}
       THEN nr' = [nr EXCEPT ![r] = NodeReplied(NodeReply("Unknown", "not found"))]
       ELSE LET n == CHOOSE x \in FindNode(nodes, req.project, req.id) : TRUE
            IN  IF FirstAbsent(n.files, req.fileIds) # ""
                THEN nr' = [nr EXCEPT ![r] = NodeReplied(
                                NodeReply("NotFound", FileNotFound(
                                    FirstAbsent(n.files, req.fileIds))))]
                ELSE nr' = [nr EXCEPT ![r] = [NodeCallIdle EXCEPT
                                !.pc = "pull", !.op = "RemoveFiles",
                                !.project = req.project, !.id = req.id,
                                !.fileIds = req.fileIds,
                                !.files = Requested(n.files, req.fileIds)]]

\* RemoveFiles: the $pull of the requested ids.
RemoveFilesPull(r) ==
    /\ nr[r].pc = "pull"
    /\ UNCHANGED <<nh, outsideNodes>>
    /\ LET f == [n \in nodes |-> [n EXCEPT !.files = Pull(n.files, Items(nr[r].fileIds))]]
           u == UpdateIdResult(nodes, nr[r], f)
       IN  /\ nodes' = u.nodes
           /\ nr' = [nr EXCEPT ![r] =
                        IF u.rep # NodeOK THEN NodeReplied(u.rep)
                        ELSE NodeLogging("RemoveFiles", NodeEvent(nr[r].project,
                                "node.removed-files", nr[r].id, "", nr[r].files))]

\* Get: the node is read and returned with its files.
NodesGet(r, req) ==
    /\ nr[r].pc = "idle"
    /\ UNCHANGED <<nodes, nh, outsideNodes>>
    /\ IF ~nodeHasIdent(req)
       THEN nr' = [nr EXCEPT ![r] = NodeReplied(
                        NodeReply("InvalidArgument", "project and id required"))]
       ELSE IF FindNode(nodes, req.project, req.id) = {}
       THEN nr' = [nr EXCEPT ![r] = NodeReplied(NodeReply("NotFound", "node does not exist"))]
       ELSE LET n == CHOOSE x \in FindNode(nodes, req.project, req.id) : TRUE
            IN  nr' = [nr EXCEPT ![r] = [NodeReplied(NodeOK) EXCEPT
                            !.project = n.project, !.id = n.id, !.files = n.files]]

\* logEvent: the event is published to the subscribers subs, or the publish
\* fails and is only logged; then the operation returns.
NodesPublish(r, ok, subs) ==
    /\ nr[r].pc = "publish"
    /\ \A s \in subs : Len(inbox[s]) < MaxInbox
    /\ inbox' = IF ok THEN Publish(inbox, subs, Head(nr[r].evs)) ELSE inbox
    /\ nr' = [nr EXCEPT ![r] = NodeReplied(nr[r].rep)]
    /\ UNCHANGED <<nodes, nh, projects, uuids, nextWid, pj, logVars, dataVars, otherVars>>

\* The caller takes the reply.
NodesReturn(r) ==
    /\ nr[r].pc = "replied"
    /\ nr' = [nr EXCEPT ![r] = NodeCallIdle]
    /\ UNCHANGED <<nodes, nh, outsideNodes>>

\* The projection starts empty, its handlers idle.
NodesInit ==
    /\ nodes = {}
    /\ nh = [n \in NodeHandlers |-> NodeHandlerIdle]
    /\ nr = [r \in NodeCallers |-> NodeCallIdle]

\* The event consumer's handlers NH.
ProjectionNext(NH) ==
    \/ \E n \in NH : NodesDeliver(n)
    \/ \E n \in NH : NodesHandle(n)
    \/ \E n \in NH : NodesDone(n)

\* Create called by the callers R for the nodes I of the projects P.
NodeCreateNext(R, P, I) ==
    \E r \in R, p \in P, i \in I, t \in {"UNKNOWN", "DATA"} :
        NodesCreate(r, [project |-> p, id |-> i, type |-> t, title |-> "A"])

\* SetTitle and SetNotes called by the callers R on the nodes I of the
\* projects P.
NodeEditNext(R, P, I) ==
    \/ \E r \in R, p \in P, i \in I :
            NodesSetTitle(r, [project |-> p, id |-> i, title |-> "B"])
    \/ \E r \in R, p \in P, i \in I :
            NodesSetNotes(r, [project |-> p, id |-> i, notes |-> "x"])

\* AddFiles and RemoveFiles called by the callers R on the nodes I of the
\* projects P.
NodeFilesNext(R, P, I) ==
    \/ \E r \in R, p \in P, i \in I, fs \in FileLists :
            AddFiles(r, [project |-> p, id |-> i,
                         files |-> [k \in 1..Len(fs) |-> File(fs[k])]])
    \/ \E r \in R, p \in P, i \in I, fs \in FileLists :
            RemoveFilesBegin(r, [project |-> p, id |-> i, fileIds |-> fs])
    \/ \E r \in R : RemoveFilesPull(r)

\* Get called by the callers R on the nodes I of the projects P.
NodeGetNext(R, P, I) ==
    \E r \in R, p \in P, i \in I : NodesGet(r, [project |-> p, id |-> i])

\* The callers R publish to the subscribers subs and take their replies.
NodeEndNext(R, OK, subs) ==
    \/ \E r \in R, ok \in OK : NodesPublish(r, ok, subs)
    \/ \E r \in R : NodesReturn(r)

\* ---------------------------------------------------------------- specifications
\* Every service starts with empty collections and idle handlers.
Init ==
    /\ CommitLogInit
    /\ DataInit
    /\ ProjectInit
    /\ NodesInit
    /\ FetchInit
    /\ StorageInit
    /\ DiffInit

\* The commit log under concurrent Commit requests and event deliveries.
CommitLogNext == WriterNext(Committers, Sinks, Projects, Msgs)

CommitLogSpec == Init /\ [][CommitLogNext]_vars

\* The Commit requests that go on while the log is read: those that pass
\* validation (a request that fails it returns before it reads the store).
ReadWriterNext == WriterNext(Committers, ReadSinks, {Project}, {" init "})

\* The commit log read by Pending and History while Commit requests and
\* event deliveries go on.
LogReadNext == ReadWriterNext \/ ClientNext

LogReadSpec == Init /\ [][LogReadNext]_vars

\* The commit log paged by the gateway's log handler while Commit requests
\* and event deliveries go on.
LogPageNext == ReadWriterNext \/ GatewayNext

LogPageSpec == Init /\ [][LogPageNext]_vars

\* The data object registry under concurrent Update requests.
DataSpec == Init /\ [][DataNext]_vars

\* The project service creating, renaming and deleting projects, no
\* service subscribed to its events.
ProjectNamesNext ==
    \/ ProjectCrudNext(ProjHandlers, Accounts, Names, ProjIds)
    \/ ProjectEndNext(ProjHandlers, BOOLEAN, {})

ProjectNamesSpec == Init /\ [][ProjectNamesNext]_vars

\* The project service updating the workflow of one project, no service
\* subscribed to its events.
WorkflowNext1 ==
    \/ \E h \in ProjHandlers :
            CreateProject(h, [account |-> "u1", name |-> "P"], Project)
    \/ WorkflowNext(ProjHandlers, {"u1"}, {Project}, Sources)
    \/ ProjectEndNext(ProjHandlers, BOOLEAN, {})

WorkflowSpec == Init /\ [][WorkflowNext1]_vars

\* Files attached to and removed from the node a. The events of the nodes
\* service go to no subscriber of the model.
NodeFilesNext1 ==
    \/ NodeCreateNext(NodeCallers, {Project}, {"a"})
    \/ NodeFilesNext(NodeCallers, {"", Project}, {"a"})
    \/ NodeEndNext(NodeCallers, BOOLEAN, {})

NodeFilesSpec == Init /\ [][NodeFilesNext1]_vars

\* The node a as it may be stored before the calls: not at all, or with
\* three files attached.
StoredNodes ==
    { {},
      {[project |-> Project, id |-> "a", type |-> "DATA", title |-> "A", notes |-> "",
        files |-> <<File("f1"), File("f2"), File("f3")>>]} }

\* AddFiles and RemoveFiles on a node that may already hold files.
FileOrderInit ==
    /\ CommitLogInit
    /\ DataInit
    /\ ProjectInit
    /\ FetchInit
    /\ StorageInit
    /\ DiffInit
    /\ nodes \in StoredNodes
    /\ nh = [n \in NodeHandlers |-> NodeHandlerIdle]
    /\ nr = [r \in NodeCallers |-> NodeCallIdle]

FileOrderNext ==
    \/ NodeCreateNext(NodeCallers, {Project}, {"a"})
    \/ NodeFilesNext(NodeCallers, {Project}, {"a"})
    \/ NodeEndNext(NodeCallers, {TRUE}, {})

FileOrderSpec == FileOrderInit /\ [][FileOrderNext]_vars

\* Every node operation called with blank and given projects and ids, on
\* nodes that exist and on nodes that do not.
NodeOpsNext ==
    \/ NodeCreateNext({"c1"}, {"", Project}, {"", " ", "a"})
    \/ NodeEditNext({"c1"}, {"", Project}, {"", " ", "a"})
    \/ NodeFilesNext({"c1"}, {"", Project}, {"", " ", "a"})
    \/ NodeGetNext({"c1"}, {"", Project}, {"", " ", "a"})
    \/ NodeEndNext({"c1"}, {TRUE}, {"replay"})

NodeOpsSpec == Init /\ [][NodeOpsNext]_vars

\* The documents the workflow is updated with while the nodes service
\* consumes every event.
ConsumerSources ==
    { <<>>,
      <<Entry("a", "data", "A", <<>>, <<>>)>>,
      <<Entry("a", "data", "B", <<"x">>, <<"z">>)>> }

\* The project service and the caller of the nodes service publish their
\* events; all of them reach the handler of the nodes service.
ConsumerNext ==
    \/ CreateProject("h1", [account |-> "u1", name |-> "P"], Project)
    \/ WorkflowNext({"h1"}, {"u1"}, {Project}, ConsumerSources)
    \/ ProjectEndNext({"h1"}, {TRUE}, {"nodes"})
    \/ NodesSetNotes("c1", [project |-> Project, id |-> "a", notes |-> "x"])
    \/ AddFiles("c1", [project |-> Project, id |-> "a", files |-> <<File("f1")>>])
    \/ RemoveFilesBegin("c1", [project |-> Project, id |-> "a", fileIds |-> <<"f1">>])
    \/ RemoveFilesPull("c1")
    \/ NodeEndNext({"c1"}, {TRUE}, {"nodes"})
    \/ ProjectionNext({"n1"})

ConsumerSpec == Init /\ [][ConsumerNext]_vars

\* The project service called by two accounts on one project id, which
\* is stored for at most one of them; its events go to one subscriber.
OwnerNext ==
    \/ ProjectCrudNext({"h1"}, Accounts, {"P", "Q"}, {Project})
    \/ \E a \in Accounts : GetProject("h1", [id |-> Project, account |-> a])
    \/ WorkflowNext({"h1"}, Accounts, {Project},
                    {<<Entry("a", "data", "A", <<>>, <<>>)>>,
                     <<Entry("a", "data", "B", <<>>, <<>>)>>})
    \/ ProjectEndNext({"h1"}, {TRUE}, {"replay"})

OwnerSpec == Init /\ [][OwnerNext]_vars

\* The operations that publish an event after their write, with publishes
\* that fail: the project service and a caller of the nodes service.
PublishNext ==
    \/ ProjectCrudNext({"h1"}, {"u1"}, {"P"}, {Project})
    \/ WorkflowNext({"h1"}, {"u1"}, {Project},
                    {<<Entry("a", "data", "B", <<"x">>, <<>>)>>})
    \/ ProjectEndNext({"h1"}, BOOLEAN, {"replay"})
    \/ NodesCreate("c1", [project |-> Project, id |-> "a", type |-> "DATA", title |-> "A"])
    \/ NodesSetNotes("c1", [project |-> Project, id |-> "a", notes |-> "x"])
    \/ AddFiles("c1", [project |-> Project, id |-> "a", files |-> <<File("f1")>>])
    \/ RemoveFilesBegin("c1", [project |-> Project, id |-> "a", fileIds |-> <<"f1">>])
    \/ RemoveFilesPull("c1")
    \/ NodeEndNext({"c1"}, BOOLEAN, {"replay"})

PublishSpec == Init /\ [][PublishNext]_vars

\* The node a created and edited directly while the project service
\* publishes a node.added event for it to the nodes service.
RedeliveryNext ==
    \/ NodeCreateNext({"c1"}, {"", Project}, {"a"})
    \/ NodeEditNext({"c1"}, {Project}, {"a"})
    \/ NodeEndNext({"c1"}, BOOLEAN, {})
    \/ ProjectionNext(NodeHandlers)
    \/ CreateProject("h1", [account |-> "u1", name |-> "P"], Project)
    \/ WorkflowNext({"h1"}, {"u1"}, {Project}, {<<Entry("a", "data", "A", <<>>, <<>>)>>})
    \/ ProjectEndNext({"h1"}, {TRUE}, {"nodes"})

RedeliverySpec == Init /\ [][RedeliveryNext]_vars

\* The documents the workflow of the projected project is updated with.
ProjectionSources ==
    { <<>>,
      <<Entry("a", "data", "A", <<>>, <<>>)>>,
      <<Entry("a", "data", "B", <<>>, <<>>)>>,
      <<Entry("a", "compute", "B", <<>>, <<>>)>> }

\* One client creates the project and updates its workflow, one call after
\* the other; every event goes to the nodes service and to a subscriber
\* that keeps the stream for a later replay.
ProjectionNext1 ==
    \/ CreateProject("h1", [account |-> "u1", name |-> "P"], Project)
    \/ WorkflowNext({"h1"}, {"u1"}, {Project}, ProjectionSources)
    \/ ProjectEndNext({"h1"}, {TRUE}, {"nodes", "replay"})
    \/ ProjectionNext(NodeHandlers)

ProjectionSpec == Init /\ [][ProjectionNext1]_vars

\* The sources of the emission runs: a titled node with an input, the same
\* node renamed with one more input, renamed with more inputs and an
\* output beside an added and a removed node, and with its title taken away.
EmissionSources ==
    { <<>>,
      <<Entry("a", "data", "A", <<"x">>, <<>>), Entry("b", "data", "B", <<>>, <<>>)>>,
      <<Entry("a", "data", "B", <<"x", "y">>, <<>>), Entry("b", "data", "B", <<>>, <<>>)>>,
      <<Entry("a", "data", "B", <<"y">>, <<"z">>), Entry("c", "data", "C", <<>>, <<>>)>>,
      <<Entry("a", "data", "", <<"x">>, <<>>), Entry("b", "data", "B", <<>>, <<>>)>> }

\* One client creates the project and updates its workflow, one call after
\* the other.
EmissionNext ==
    \/ CreateProject("h1", [account |-> "u1", name |-> "P"], Project)
    \/ WorkflowNext({"h1"}, {"u1"}, {Project}, EmissionSources)
    \/ ProjectEndNext({"h1"}, {TRUE}, {})

EmissionSpec == Init /\ [][EmissionNext]_vars

\* The sources of the ingest runs: a node, and the node renamed with one
\* more input.
IngestSources ==
    { <<Entry("a", "data", "A", <<>>, <<>>)>>,
      <<Entry("a", "data", "B", <<"y">>, <<>>)>> }

\* One client creates the project and updates its workflow; the events go
\* to the commit log, whose handlers store them.
IngestNext ==
    \/ CreateProject("h1", [account |-> "u1", name |-> "P"], Project)
    \/ WorkflowNext({"h1"}, {"u1"}, {Project}, IngestSources)
    \/ ProjectEndNext({"h1"}, {TRUE}, {"commitlog"})
    \/ \E h \in Sinks : SinkDeliver(h)
    \/ \E h \in Sinks : SinkNewId(h)
    \/ \E h \in Sinks : SinkInsert(h)

IngestSpec == Init /\ [][IngestNext]_vars

\* The data object registry under concurrent Update, Describe and Get requests.
DataReadSpecNext == DataNext \/ DataReadNext({"u1"})

DataReadSpec == Init /\ [][DataReadSpecNext]_vars

\* The Upload helper on a fresh object.
HelperSpec == Init /\ [][HelperNext]_vars

\* Import with its fetch task while another caller updates the object.
ImportSpec == Init /\ [][ImportNext]_vars

\* The storage client on a bucket that may already hold an object.
StorageSpecInit ==
    /\ CommitLogInit
    /\ DataInit
    /\ ProjectInit
    /\ NodesInit
    /\ FetchInit
    /\ DiffInit
    /\ fsys \in Buckets
    /\ tc = ClientIdle

StorageSpec == StorageSpecInit /\ [][StorageNext]_vars

\* DiffGraph called on a pair of graphs, every service idle.
DiffSpecInit ==
    /\ CommitLogInit
    /\ DataInit
    /\ ProjectInit
    /\ NodesInit
    /\ FetchInit
    /\ StorageInit
    /\ df \in {DiffCall(a, b) : a \in Graphs, b \in Graphs}

DiffSpec == DiffSpecInit /\ [][DiffNext]_vars

\* One client creates the project and adds the node a to its workflow,
\* the commit log receives the events, and the client commits and reads
\* the log.
ScenarioNext ==
    \/ CreateProject("h1", [account |-> "u1", name |-> "P"], Project)
    \/ WorkflowNext({"h1"}, {"u1"}, {Project}, {<<Entry("a", "data", "A", <<>>, <<>>)>>})
    \/ ProjectEndNext({"h1"}, {TRUE}, {"commitlog"})
    \/ \E h \in Sinks : SinkDeliver(h)
    \/ \E h \in Sinks : SinkNewId(h)
    \/ \E h \in Sinks : SinkInsert(h)
    \/ CommitBegin("c1", [project |-> Project, msg |-> " init "])
    \/ CommitFindEvent("c1")
    \/ CommitNewCommit("c1")
    \/ CommitInsert("c1")
    \/ CommitReturn("c1")
    \/ ClientNext

ScenarioSpec == Init /\ [][ScenarioNext]_vars

\* ---------------------------------------------------------------- commit chain
CommitIds == {c.id : c \in commits}

EventIds == {e.id : e \in events}

CommitById(id) == CHOOSE c \in commits : c.id = id

\* The commits older than c, by id.
Older(c) == {d \in commits : d.id < c.id}

\* The events a commit seals, by its own fields: those after its parent's
\* event pointer up to its own.
SealedRange(c) ==
    {e \in events :
        /\ e.id <= c.event
        /\ c.parent # EmptyStr => e.id > CommitById(ObjectIdHex(c.parent)).event}

\* C1: two Commit requests that run in parallel never seal overlapping event
\* ranges: the ranges sealed by any two commits of the project are disjoint.
C1_SealedRangesDisjoint ==
    \A c, d \in commits : c # d => SealedRange(c) \cap SealedRange(d) = {}

\* C2: in every reachable state the History windows of the commits are
\* pairwise disjoint and their union is exactly the stored events that
\* Pending does not return.
C2_WindowsPartitionSealedEvents ==
    LET W(c) == HistoryWindow(c, commits, events)
        pending == {PendingEvents(commits, events)[i] :
                        i \in 1..Len(PendingEvents(commits, events))}
    IN  /\ \A c, d \in commits : c # d => W(c) \cap W(d) = {}
        /\ UNION {W(c) : c \in commits} = events \ pending

\* C3: the commits form a single chain: the parent of every commit is the
\* commit with the next-smaller id, and is empty only for the smallest id.
C3_SingleChain ==
    \A c \in commits :
        IF Older(c) = {} THEN c.parent = EmptyStr
        ELSE /\ c.parent # EmptyStr
             /\ ObjectIdHex(c.parent) \in CommitIds
             /\ \A d \in Older(c) : d.id <= ObjectIdHex(c.parent)

\* C4: event pointers strictly increase along the commits ordered by id.
C4_PointersStrictlyIncrease ==
    \A c, d \in commits : c.id < d.id => c.event < d.event

\* ---------------------------------------------------------------- Commit, one call
MaxOf(S) == CHOOSE n \in S : \A m \in S : m <= n

\* The commit with the largest id, or the zero commit when there is none.
LatestCommit == IF commits = {} THEN ZeroCommit ELSE CommitById(MaxOf(CommitIds))

\* The stored events later than the event pointer of commit c, or all of
\* them when c is the zero commit.
EventsAfter(c) == {e \in events : c.id = 0 \/ e.id > c.event}

\* C5: a Commit that looks for the events to seal on a project that has no
\* event after the event pointer of the latest commit (no event at all when
\* there is no commit) fails with FailedPrecondition "nothing to commit" and
\* adds no commit: commits and events are unchanged.  The latest commit is
\* the one the call found, and the stored one when no other handler wrote
\* in between.
C5_NothingToCommitFails ==
    [][\A p \in Committers :
        (/\ cm[p].pc = "findEvent"
         /\ cm'[p].pc # "findEvent"
         /\ \/ EventsAfter(cm[p].latestCommit) = {}
            \/ cm[p].alone /\ EventsAfter(LatestCommit) = {})
        => /\ cm'[p].pc = "replied"
           /\ cm'[p].rep = Reply("FailedPrecondition", "nothing to commit", EmptyStr)
           /\ commits' = commits
           /\ events' = events]_vars

\* A Commit call failed with nothing to commit on a project that has
\* commits and events.
C5_Witness ==
    \E p \in Committers :
        /\ cm[p].pc = "replied"
        /\ cm[p].rep.code = "FailedPrecondition"
        /\ commits # {}
        /\ events # {}

\* C6: a Commit that succeeds with no write of another handler interleaved
\* adds exactly one commit, with a fresh largest id, whose parent is the
\* previously latest commit (empty when there was none) and whose event
\* pointer is the newest stored event; a Pending run right after it returns
\* no events.
C6_CommitSealsSuffix ==
    [][\A p \in Committers :
        (cm[p].pc = "insert" /\ cm'[p].pc = "replied" /\ cm[p].alone)
        => \E c \in commits' \ commits :
            /\ commits' = commits \cup {c}
            /\ events' = events
            /\ \A d \in commits : d.id < c.id
            /\ c.parent = Hex(LatestCommit.id)
            /\ events # {}
            /\ c.event = MaxOf(EventIds)
            /\ cm'[p].rep = Reply("OK", "", Hex(c.id))
            /\ PendingEvents(commits', events') = <<>>]_vars

\* A second commit was added on top of the first one, it seals the newest
\* event and nothing is pending.
C6_Witness ==
    \E p \in Committers :
        /\ cm[p].pc = "replied"
        /\ cm[p].rep.code = "OK"
        /\ Cardinality(commits) = 2
        /\ LET c == CommitById(ObjectIdHex(cm[p].rep.id))
           IN  /\ c.parent # EmptyStr
               /\ ObjectIdHex(c.parent) \in CommitIds
               /\ c.event = MaxOf(EventIds)
               /\ CommitById(ObjectIdHex(c.parent)).event < c.event
        /\ PendingEvents(commits, events) = <<>>

\* ---------------------------------------------------------------- Pending, History replies
\* The event ids of a reply, in reply order.
ReplyIds(evs) == [i \in 1..Len(evs) |-> ObjectIdHex(evs[i].id)]

NewestFirst(evs) ==
    \A i, j \in 1..Len(evs) : i < j => ReplyIds(evs)[i] > ReplyIds(evs)[j]

\* The reply's events are exactly the stored events S, each once.
SameEvents(evs, S) ==
    /\ Len(evs) = Cardinality(S)
    /\ {evs[i] : i \in 1..Len(evs)} = {[id |-> Hex(e.id), type |-> e.type] : e \in S}

\* The commit immediately before c by id, or the zero commit at the root.
PrevCommit(c) ==
    IF Older(c) = {} THEN ZeroCommit ELSE CommitById(MaxOf({d.id : d \in Older(c)}))

\* The stored events in (p.event, c.event], or up to c.event when p is the
\* zero commit.
EventsBetween(p, c) ==
    {e \in events : e.id <= c.event /\ (p.id # 0 => e.id > p.event)}

\* C7: Pending returns exactly the stored events whose id is greater than
\* the event pointer of the latest commit (the one with the largest id), or
\* all stored events when there is no commit, newest first: so does a run
\* of Pending on any reachable state, and so does each of its two steps.
C7_PendingReturnsUnsealedSuffix ==
    [][/\ NewestFirst(ToEvents(PendingEvents(commits, events)))
       /\ SameEvents(ToEvents(PendingEvents(commits, events)), EventsAfter(LatestCommit))
       /\ (rd.pc = "sent" /\ rd.req.op = "Pending" /\ rd'.pc = "pendingEvents")
            => rd'.commit = LatestCommit
       /\ (rd.pc = "pendingEvents" /\ rd'.pc = "replied")
            => /\ rd'.rep.code = "OK"
               /\ NewestFirst(rd'.rep.events)
               /\ SameEvents(rd'.rep.events, EventsAfter(rd.commit))]_vars

\* Pending replied with the unsealed events of a project that has a commit
\* and sealed events.
C7_Witness ==
    /\ rd.pc = "replied"
    /\ rd.rep.code = "OK"
    /\ ~rd.rep.hasCommit
    /\ Len(rd.rep.events) >= 1
    /\ commits # {}
    /\ SameEvents(rd.rep.events, EventsAfter(LatestCommit))
    /\ EventsAfter(LatestCommit) # events

\* C8: History returns commit C (the latest one for an empty request, else
\* the requested one) with exactly the events in (P.event, C.event], P the
\* commit immediately before C, or all events up to C.event at the root,
\* newest first; next is P's id, empty at the root.
C8_HistoryReturnsWindow ==
    [][/\ (rd.pc = "sent" /\ rd.req.op = "History" /\ rd'.pc = "findNext")
            => /\ rd'.commit \in commits
               /\ IF rd.req.commit = EmptyStr THEN rd'.commit = LatestCommit
                  ELSE Hex(rd'.commit.id) = rd.req.commit
       /\ (rd.pc = "findNext" /\ rd'.pc = "findEvents")
            => /\ rd'.nextCommit.id = PrevCommit(rd.commit).id
               /\ rd'.nextCommit.event = PrevCommit(rd.commit).event
       /\ (rd.pc = "findEvents" /\ rd'.pc = "replied")
            => /\ rd'.rep.code = "OK"
               /\ rd'.rep.hasCommit
               /\ rd'.rep.id = Hex(rd.commit.id)
               /\ rd'.rep.next = Hex(rd.nextCommit.id)
               /\ NewestFirst(rd'.rep.events)
               /\ SameEvents(rd'.rep.events, EventsBetween(rd.nextCommit, rd.commit))
               /\ SameEvents(rd'.rep.events, HistoryWindow(rd.commit, commits, events))
                    \/ PrevCommit(rd.commit).id # rd.nextCommit.id]_vars

\* On a chain of two commits History replied with the second commit, the
\* events it sealed after the first one's, and the first commit as next.
C8_Witness ==
    /\ rd.pc = "replied"
    /\ rd.rep.hasCommit
    /\ Cardinality(commits) = 2
    /\ C3_SingleChain
    /\ C4_PointersStrictlyIncrease
    /\ rd.rep.id = Hex(LatestCommit.id)
    /\ rd.rep.next = Hex(PrevCommit(LatestCommit).id)
    /\ rd.rep.next # EmptyStr
    /\ Len(rd.rep.events) >= 1
    /\ SameEvents(rd.rep.events, EventsBetween(PrevCommit(LatestCommit), LatestCommit))
    /\ EventsBetween(ZeroCommit, PrevCommit(LatestCommit)) # {}

\* ---------------------------------------------------------------- paging
\* The commit ids the log handler has collected, in order.
PageIds(g) == [i \in 1..Len(g.commits) |-> ObjectIdHex(g.commits[i].id)]

\* C9: paging History from the newest commit by feeding next back ends and
\* returns every commit of the project exactly once, newest first: the
\* handler can always take its next step, every further request asks for an
\* older commit than the one just returned, and the commits it ends with
\* are stored commits in strictly descending id order that include every
\* commit stored when it began (all commits, when none was added meanwhile).
C9_PagingReturnsEveryCommitOnce ==
    /\ [](gw.active => ENABLED GatewayNext)
    /\ [][/\ (gw.active /\ rd.pc = "replied" /\ rd'.pc = "sent")
               => ObjectIdHex(rd'.req.commit) < ObjectIdHex(rd.rep.id)
          /\ (gw.active /\ gw'.done)
               => (LET ids == PageIds(gw')
                       got == {ids[i] : i \in 1..Len(ids)}
                   IN  /\ \A i, j \in 1..Len(ids) : (i < j => ids[i] > ids[j])
                       /\ got \subseteq CommitIds
                       /\ gw.start \subseteq got
                       /\ (gw.start = CommitIds => got = CommitIds))]_vars

\* The log handler ended with both commits of a two-commit project.
C9_Witness ==
    /\ gw.done
    /\ Len(gw.commits) = 2
    /\ {PageIds(gw)[i] : i \in 1..2} = CommitIds

\* ---------------------------------------------------------------- event store
\* C10: every ingest by the event sink adds exactly one event, whose id is
\* greater than the id of every event already stored, and changes or removes
\* no stored event.
C10_IngestAppendsNewestEvent ==
    [][\A h \in Sinks :
        (sk[h].pc = "insert" /\ sk'[h].pc = "idle")
        => /\ events \subseteq events'
           /\ Cardinality(events' \ events) = 1
           /\ \A e \in events' \ events : \A x \in events : e.id > x.id]_vars

\* ---------------------------------------------------------------- data objects
\* The stored object an Update request names, if any.
Stored(id) == FindId(objects, id)

\* C14: DONE is terminal: a stored object whose state is DONE is never
\* changed again (state, version and every other field stay), whatever
\* Updates are in flight, and every Update that reads the object in state
\* DONE fails with FailedPrecondition, whatever state it requests.
C14_DoneIsTerminal ==
    [][/\ \A o \in objects : o.state = "DONE" => o \in objects'
       /\ \A u \in Updaters, req \in UpdateRequests :
            (UpdateBegin(u, req) /\ \E o \in Stored(req.id) : o.state = "DONE")
            => /\ up'[u].pc = "replied"
               /\ up'[u].rep = DataReply("FailedPrecondition", "object is done")
               /\ objects' = objects]_vars

\* An Update was refused on a DONE object while the other handler's
\* update, begun before the object was DONE, lost against it.
C14_Witness ==
    /\ \E o \in objects : o.state = "DONE"
    /\ \E u, w \in Updaters :
        /\ up[u].rep = DataReply("FailedPrecondition", "object is done")
        /\ up[w].rep = DataReply("Unavailable", "object update conflict")

\* C15: an object enters DONE only from INPROGRESS: on every step that
\* makes an object DONE its state before was INPROGRESS, and an Update
\* requesting DONE that reads the object in CREATED or ERROR is rejected
\* and changes nothing.
C15_DoneOnlyFromInProgress ==
    [][/\ \A n \in objects' :
            (n.state = "DONE" /\ n \notin objects)
            => \E o \in objects : o.id = n.id /\ o.state = "INPROGRESS"
       /\ \A u \in Updaters, req \in UpdateRequests :
            (/\ UpdateBegin(u, req)
             /\ req.state = "DONE"
             /\ \E o \in Stored(req.id) : o.state \in {"CREATED", "ERROR"})
            => /\ up'[u].pc = "replied"
               /\ up'[u].rep.code = "InvalidArgument"
               /\ objects' = objects]_vars

\* An Update to DONE was rejected on an object in ERROR.
C15_Witness ==
    /\ \E o \in objects : o.state = "ERROR"
    /\ \E u \in Updaters :
        /\ up[u].pc = "replied"
        /\ up[u].rep = DataReply("InvalidArgument",
                                 "object cannot transition to DONE from DONE")

\* C16: Update is a compare-and-set on the version: the write is applied
\* exactly when the stored version is still the one read, and then stores
\* the requested state under the next version; otherwise it fails with
\* Unavailable "object update conflict" and changes nothing.  Of two
\* Updates that read the same version the first to write is applied and
\* leaves a version under which the other cannot be applied; versions
\* never decrease.
C16_UpdateIsCompareAndSet ==
    [][/\ \A o \in objects : \A n \in objects' : n.id = o.id => n.version >= o.version
       /\ \A u \in Updaters :
            (up[u].pc = "write" /\ up'[u].pc = "replied")
            => LET v == up[u].d.version
                   id == up[u].req.id
               IN  /\ IF \E o \in Stored(id) : o.version = v
                      THEN /\ up'[u].rep = DataReply("OK", "")
                           /\ \E n \in objects' :
                                /\ n.id = id
                                /\ n.version = v + 1
                                /\ n.state = up[u].req.state
                                /\ objects' \ {n} = objects \ Stored(id)
                      ELSE /\ up'[u].rep = DataReply("Unavailable", "object update conflict")
                           /\ objects' = objects
                   /\ \A w \in Updaters \ {u} :
                        (up[w].pc = "write" /\ up[w].req.id = id /\ up[w].d.version = v)
                        => /\ up'[u].rep.code = "OK"
                           /\ \A n \in objects' : n.id = id => n.version # v]_vars

\* Of two Updates that read the same version one was applied and the other
\* failed with the conflict.
C16_Witness ==
    /\ up["u1"].rep = DataReply("OK", "")
    /\ up["u2"].rep = DataReply("Unavailable", "object update conflict")
    /\ \E o \in objects : o.version = 1

\* ---------------------------------------------------------------- workflow updates
\* The requests UpdateWorkflow is called with.
WorkflowRequests == [id : ProjIds, account : Accounts, source : Sources]

\* The source of the last stored revision of p is src.
CurrentSourceIs(p, src) ==
    Len(p.workflows) > 0 /\ p.workflows[Len(p.workflows)].source = src

\* C11: an UpdateWorkflow whose source is the source of the project's last
\* stored revision (the second of two calls with the same source) fails
\* with FailedPrecondition "nothing changed", goes on to publish no event
\* and appends no revision.
C11_SameSourceChangesNothing ==
    [][\A h \in ProjHandlers, req \in WorkflowRequests :
        (/\ UpdateWorkflowBegin(h, req)
         /\ \E p \in FindProject(projects, req.id, req.account) :
                CurrentSourceIs(p, req.source))
        => /\ pj'[h] = ProjectReplied(
                        ProjectReply("FailedPrecondition", "nothing changed", ""))
           /\ projects' = projects
           /\ inbox' = inbox]_vars

\* A call was refused with "nothing changed" on a project whose only
\* revision has a source that no other source shares its graph with.
C11_Witness ==
    /\ \E h \in ProjHandlers :
        pj[h] = ProjectReplied(ProjectReply("FailedPrecondition", "nothing changed", ""))
    /\ \E p \in projects :
        /\ Len(p.workflows) = 1
        /\ p.workflows[1].source = <<Entry("a", "data", "B", <<"y">>, <<>>)>>

\* ---------------------------------------------------------------- project names
\* Two names are equal ignoring case.
EqualFold(a, b) == ToLower(a) = ToLower(b)

\* A stored project other than id of the account bears the name, ignoring case.
NameTaken(account, name, id) ==
    \E o \in projects : o.id # id /\ o.account = account /\ EqualFold(o.name, name)

AlreadyExistsReply ==
    ProjectReplied(ProjectReply("AlreadyExists", "project already exists", ""))

\* C13: no two stored projects of one account have names that are equal
\* ignoring case; a CreateProject, or an UpdateProject of a stored project,
\* that asks for a name another project of the account bears fails with
\* AlreadyExists, changes no project and goes on to publish no event.
C13_NamesUniquePerAccount ==
    /\ [](\A p, q \in projects :
            (p # q /\ p.account = q.account) => ~EqualFold(p.name, q.name))
    /\ [][/\ \A h \in ProjHandlers, a \in Accounts, n \in Names, id \in ProjIds :
                (/\ CreateProject(h, [account |-> a, name |-> n], id)
                 /\ a # "" /\ n # ""
                 /\ NameTaken(a, n, id))
                => /\ pj'[h] = AlreadyExistsReply
                   /\ projects' = projects
                   /\ inbox' = inbox
          /\ \A h \in ProjHandlers, a \in Accounts, n \in Names, id \in ProjIds :
                (/\ UpdateProject(h, [id |-> id, account |-> a, name |-> n])
                 /\ n # ""
                 /\ FindProject(projects, id, a) # {}
                 /\ NameTaken(a, n, id))
                => /\ pj'[h] = AlreadyExistsReply
                   /\ projects' = projects
                   /\ inbox' = inbox]_vars

\* A request was refused with AlreadyExists while two accounts each hold a
\* project of the same name.
C13_Witness ==
    /\ \E h \in ProjHandlers : pj[h] = AlreadyExistsReply
    /\ \E p, q \in projects : p.account # q.account /\ EqualFold(p.name, q.name)

\* ---------------------------------------------------------------- node files
\* The RemoveFiles requests of the model.
RemoveFilesRequests ==
    [project : {"", Project}, id : {"a"}, fileIds : FileLists]

\* The request names a stored node and an id that is not among its files.
NamesAbsentFile(req) ==
    /\ nodeHasIdent(req)
    /\ \E n \in FindNode(nodes, req.project, req.id) :
            \E i \in 1..Len(req.fileIds) : req.fileIds[i] \notin FileIdsOf(n.files)

\* C17: a RemoveFiles request that names a file id not attached to the
\* node is answered NotFound for that file at its first step, which leaves
\* every node as it was, hands no event to the bus and ends the operation,
\* so that no file is pulled and no node.removed-files event is published.
C17_RemoveAbsentFileFails ==
    [][\A r \in NodeCallers, req \in RemoveFilesRequests :
            RemoveFilesBegin(r, req) /\ NamesAbsentFile(req)
            => /\ nr'[r].pc = "replied"
               /\ nr'[r].rep.code = "NotFound"
               /\ \E i \in 1..Len(req.fileIds) :
                        nr'[r].rep.text = FileNotFound(req.fileIds[i])
               /\ nr'[r].evs = <<>>
               /\ nodes' = nodes
               /\ inbox' = inbox]_vars

\* A request naming the absent file f2 was refused while f1 is attached.
C17_Witness ==
    /\ nr["c1"].pc = "replied"
    /\ nr["c1"].rep = NodeReply("NotFound", FileNotFound("f2"))
    /\ \E n \in FindNode(nodes, Project, "a") : FileIdsOf(n.files) = {"f1"}

\* C18: when the event handler runs on a node.added event whose node is
\* already stored, the node table is unchanged and the handler returns
\* without an error.
C18_AddedTwiceIsSuccess ==
    [][\A n \in NodeHandlers :
            /\ NodesHandle(n)
            /\ nh[n].e.type = "node.added"
            /\ FindNode(nodes, nh[n].e.project, nh[n].e.key) # {}
            => /\ nodes' = nodes
               /\ nh'[n].ret = NodeOK]_vars

\* ---------------------------------------------------------------- projection
\* No call of the project service is in progress and the nodes service has
\* handled every event published to it.
Settled ==
    /\ \A h \in ProjHandlers : pj[h].pc = "idle"
    /\ inbox["nodes"] = <<>>
    /\ \A n \in NodeHandlers : nh[n].pc = "idle"

\* The (key, type, title) of the projected nodes of the project.
Projected(project) ==
    {[key |-> n.id, type |-> n.type, title |-> n.title] :
        n \in {x \in nodes : x.project = project}}

\* The (key, type, title) of the nodes the graph declares.
Declared(g) ==
    {[key |-> k, type |-> decodeType(g[k].type), title |-> g[k].title] : k \in DOMAIN g}

\* C12: once the nodes service has applied every event of the workflow
\* updates of a project, its projected nodes are exactly the nodes the
\* project's last revision declares, with their types and titles.
C12_ProjectionConverges ==
    Settled => \A p \in projects :
                    Len(p.workflows) > 0 => Projected(p.id) = Declared(CurrentNodes(p))

\* The node the stream node.added{a, data, A}, node.renamed{a, to B} stands for.
NodeAB ==
    [project |-> Project, id |-> "a", type |-> "DATA", title |-> "B",
     notes |-> "", files |-> <<>>]

\* C19: the node table the delivery of a project's events has produced is
\* the table their replay in order into an empty projection yields; the
\* replay of node.added{a, data, A}, node.renamed{a, to B} yields the one
\* node a of type DATA titled B with empty notes and no files.
C19_ReplayYieldsSameTable ==
    /\ Settled => nodes = Replay({}, inbox["replay"])
    /\ Replay({}, << BusEvent(Project, "node.added", 1, "a", "data", "A", "", ""),
                     BusEvent(Project, "node.renamed", 2, "a", "", "B", "A", "") >>)
            = {NodeAB}

\* ---------------------------------------------------------------- scenario
\* The project is created, its workflow holds the node a, and the commit
\* log has stored the two events published.
Delivered ==
    /\ \A h \in ProjHandlers : pj[h].pc = "idle"
    /\ \E q \in projects : Len(q.workflows) = 1
    /\ inbox["commitlog"] = <<>>
    /\ \A h \in Sinks : sk[h].pc = "idle"
    /\ Cardinality(events) = 2

\* No Commit has been called yet.
NothingCommitted == commits = {} /\ \A p \in Committers : cm[p].pc = "idle"

\* One Commit has sealed the two events.
OneCommit ==
    /\ Cardinality(commits) = 1
    /\ \A c \in commits : \A e \in events : e.id <= c.event
    /\ \A p \in Committers : cm[p].pc \in {"idle", "replied"}

TypesOf(evs) == [i \in 1..Len(evs) |-> evs[i].type]

\* C20: once the events of CreateProject and of the UpdateWorkflow that
\* adds the node a are stored, Pending replies with node.added and then
\* project.created (newest first); after one Commit, History replies with
\* that commit, its events the two events and next empty, and Pending
\* replies with no events.
C20_ScenarioLog ==
    [][rd.req.project = Project =>
        /\ Delivered /\ NothingCommitted /\ PendingFindEvents
             => TypesOf(rd'.rep.events) = <<"node.added", "project.created">>
        /\ Delivered /\ OneCommit /\ PendingBegin
             => rd'.commit \in commits
        /\ Delivered /\ OneCommit /\ PendingFindEvents /\ rd.commit \in commits
             => rd'.rep.events = <<>>
        /\ Delivered /\ OneCommit /\ HistoryFindEvents /\ rd.req.commit = EmptyStr
             => /\ rd'.rep.hasCommit
                /\ {e.id : e \in Items(rd'.rep.events)} = {Hex(e.id) : e \in events}
                /\ Len(rd'.rep.events) = 2
                /\ rd'.rep.next = EmptyStr]_vars

\* ---------------------------------------------------------------- data states
\* C28: an object moves to ERROR only from INPROGRESS: an Update requesting
\* ERROR that reads the object in CREATED or in ERROR is rejected and
\* changes nothing, every step that makes an object ERROR finds it in
\* INPROGRESS, and the write of an accepted request stores the request's
\* error text.
C28_ErrorOnlyFromInProgress ==
    [][/\ \A u \in Updaters, req \in UpdateRequests :
            (/\ UpdateBegin(u, req)
             /\ req.state = "ERROR"
             /\ \E o \in Stored(req.id) : o.state \in {"CREATED", "ERROR"})
            => /\ up'[u].pc = "replied"
               /\ up'[u].rep.code \notin {"", "OK"}
               /\ objects' = objects
       /\ \A n \in objects' :
            (n.state = "ERROR" /\ n \notin objects)
            => \E o \in objects : o.id = n.id /\ o.state = "INPROGRESS"
       /\ \A u \in Updaters :
            (UpdateWrite(u) /\ up[u].req.state = "ERROR" /\ up'[u].rep.code = "OK")
            => \E n \in objects' : n.id = up[u].req.id /\ n.error = up[u].req.error]_vars

\* C29 as stated: an object moves to INPROGRESS only from CREATED or ERROR:
\* an Update requesting INPROGRESS that reads the object in INPROGRESS is
\* rejected and changes nothing.
C29_InProgressOnlyFromCreatedOrError ==
    [][/\ \A u \in Updaters, req \in UpdateRequests :
            (/\ UpdateBegin(u, req)
             /\ req.state = "INPROGRESS"
             /\ \E o \in Stored(req.id) : o.state = "INPROGRESS")
            => /\ up'[u].pc = "replied"
               /\ up'[u].rep.code \notin {"", "OK"}
               /\ objects' = objects
       /\ \A n \in objects' :
            (n.state = "INPROGRESS" /\ n \notin objects)
            => \E o \in objects : o.id = n.id /\ o.state \in {"CREATED", "ERROR"}]_vars

\* C29 amended: an Update requesting INPROGRESS is accepted from every
\* state but DONE (CREATED, INPROGRESS and ERROR) and refused with
\* FailedPrecondition on a DONE object; the write of an accepted request,
\* when it is applied, leaves the object in INPROGRESS with an empty error
\* text, and every step that makes an object INPROGRESS or rewrites it as
\* INPROGRESS finds it in CREATED, INPROGRESS or ERROR.
C29_InProgressFromAnyButDone ==
    [][/\ \A u \in Updaters, req \in UpdateRequests :
            (UpdateBegin(u, req) /\ req.state = "INPROGRESS")
            => \A o \in Stored(req.id) :
                    IF o.state = "DONE"
                    THEN /\ up'[u].pc = "replied"
                         /\ up'[u].rep.code = "FailedPrecondition"
                    ELSE /\ up'[u].pc = "write"
                         /\ up'[u].d = o
       /\ \A u \in Updaters :
            (UpdateWrite(u) /\ up[u].req.state = "INPROGRESS" /\ up'[u].rep.code = "OK")
            => /\ \E o \in Stored(up[u].req.id) :
                    o.state \in {"CREATED", "INPROGRESS", "ERROR"}
               /\ \E n \in objects' :
                    /\ n.id = up[u].req.id
                    /\ n.state = "INPROGRESS"
                    /\ n.error = ""
       /\ \A n \in objects' :
            (n.state = "INPROGRESS" /\ n \notin objects)
            => \E o \in objects :
                    o.id = n.id /\ o.state \in {"CREATED", "INPROGRESS", "ERROR"}]_vars

\* An Update to INPROGRESS read the object in INPROGRESS and went on to
\* its write, and another one was applied to an object that had an error.
C29_Witness ==
    /\ up["u1"].pc = "write"
    /\ up["u1"].req.state = "INPROGRESS"
    /\ up["u1"].d.state = "INPROGRESS"
    /\ up["u2"].rep = DataReply("OK", "")
    /\ \E o \in objects : o.state = "INPROGRESS" /\ o.error = "" /\ o.version = 3

\* ---------------------------------------------------------------- graph diffs
\* C25: DiffGraph(A, A) reports no added, removed or changed node, for
\* every graph A, also when a node lists an item twice or in another order.
C25_DiffOfSameGraphEmpty ==
    (df.called /\ df.a = df.b) =>
        /\ df.gd.nil
        /\ DOMAIN df.gd.added = {}
        /\ DOMAIN df.gd.removed = {}
        /\ DOMAIN df.gd.changed = {}

\* A graph whose node has a title and lists an item twice was diffed with itself.
C25_Witness ==
    /\ df.called
    /\ df.a = df.b
    /\ "a" \in DOMAIN df.a
    /\ df.a["a"].title = "A"
    /\ df.a["a"].input = <<"x", "x">>
    /\ df.gd.nil

\* C26: Added is keys(B) \ keys(A) mapped to the nodes of B, Removed is
\* keys(A) \ keys(B) mapped to the nodes of A, and every key of Changed
\* is a key of both graphs.
C26_AddedRemovedByKeys ==
    df.called =>
        /\ DOMAIN df.gd.added = DOMAIN df.b \ DOMAIN df.a
        /\ \A k \in DOMAIN df.gd.added : df.gd.added[k] = df.b[k]
        /\ DOMAIN df.gd.removed = DOMAIN df.a \ DOMAIN df.b
        /\ \A k \in DOMAIN df.gd.removed : df.gd.removed[k] = df.a[k]
        /\ DOMAIN df.gd.changed \subseteq DOMAIN df.a \cap DOMAIN df.b

\* A diff with an added key, a removed key's counterpart kept and a changed key.
C26_Witness ==
    /\ df.called
    /\ DOMAIN df.a = {"a"}
    /\ DOMAIN df.b = {"a", "b"}
    /\ DOMAIN df.gd.added = {"b"}
    /\ df.gd.added["b"].type = "compute"
    /\ DOMAIN df.gd.changed = {"a"}

\* The items of a list as a set.
SameItems(l, m) == Items(l) = Items(m)

\* The delta the claim describes: TRUE for an item of b not in a, FALSE
\* for an item of a not in b, no other item.
DeltaOf(d, l, m) ==
    /\ DOMAIN d = (Items(m) \ Items(l)) \cup (Items(l) \ Items(m))
    /\ \A x \in DOMAIN d : d[x] = (x \in Items(m))

\* C27: a key of both graphs is unchanged exactly when the titles are
\* equal and the input sets and the output sets are equal; when the
\* titles differ, whatever they are, the node is changed with FromTitle
\* the old and ToTitle the new title; the deltas map an item to TRUE when
\* it is only in B and to FALSE when it is only in A.
C27_UnchangedIffSame ==
    df.called =>
        \A k \in DOMAIN df.a \cap DOMAIN df.b :
            LET a == df.a[k]
                b == df.b[k]
            IN  /\ (k \notin DOMAIN df.gd.changed) <=>
                        (a.title = b.title /\ SameItems(a.input, b.input)
                                           /\ SameItems(a.output, b.output))
                /\ a.title # b.title =>
                        /\ k \in DOMAIN df.gd.changed
                        /\ df.gd.changed[k].from = a.title
                        /\ df.gd.changed[k].to = b.title
                /\ k \in DOMAIN df.gd.changed =>
                        /\ DeltaOf(df.gd.changed[k].input.d, a.input, b.input)
                        /\ DeltaOf(df.gd.changed[k].output.d, a.output, b.output)

\* ---------------------------------------------------------------- local storage round trip
\* The calls the claim takes to have succeeded: Writer, the copy, Close, Move.
WrittenAndMoved == tc.failed \cap {"create", "writer", "move"} = {}

\* C21: content written through the Writer of an object and closed, then
\* moved to a new name, is read back byte for byte through the Reader of
\* the moved object, and the object and then the bucket are deleted
\* without an error.
C21_MovedObjectReadsBack ==
    WrittenAndMoved =>
        /\ tc.failed = {}
        /\ tc.pc \in {"delete", "bucketDelete", "done"} => tc.out = tc.text
        /\ tc.pc = "done" => fsys = EmptyFS

\* dir/test.csv was written with two bytes, moved to foo.csv, read back and
\* deleted with its bucket.
C21_Witness ==
    /\ tc.pc = "done"
    /\ tc.src = <<"dir", "test.csv">>
    /\ tc.obj = <<"foo.csv">>
    /\ tc.text = <<1, 2>>
    /\ tc.out = <<1, 2>>
    /\ tc.failed = {}

\* ---------------------------------------------------------------- import
\* C30: the fetch task of an imported object ends with its outcome
\* applied to the object, DONE after a transfer that succeeded and ERROR
\* after one that failed, also when another Update on the object
\* interleaves with the Updates of the task.
C30_FetchReachesOutcome ==
    \A f \in Fetchers :
        ft[f].pc = "ended" =>
            ft[f].applied = IF ft[f].err # "" THEN "ERROR" ELSE "DONE"

\* ---------------------------------------------------------------- event emission
\* The place of an event in the emission order: added nodes, removed
\* nodes, changed nodes.
Phase(e) ==
    CASE e.type = "node.added" -> 1
      [] e.type = "node.removed" -> 2
      [] OTHER -> 3

\* The place of an event among those of one changed node: the rename, the
\* input events, the output events.
Rank(e) ==
    CASE e.type = "node.renamed" -> 1
      [] e.type \in {"node.input-added", "node.input-removed"} -> 2
      [] OTHER -> 3

\* The event types of a sequence of events.
TypeSeq(evs) == [i \in 1..Len(evs) |-> evs[i].type]

\* C23: the events of one UpdateWorkflow call are emitted in the order
\* node.added, node.removed, events of changed nodes, and for each
\* changed node node.renamed comes first, then its input events, then its
\* output events.
C23_EmissionOrder ==
    \A h \in ProjHandlers :
        pj[h].op = "UpdateWorkflow" =>
            \A i, j \in 1..Len(pj[h].evs) :
                i < j =>
                    /\ Phase(pj[h].evs[i]) <= Phase(pj[h].evs[j])
                    /\ (Phase(pj[h].evs[i]) = 3 /\ pj[h].evs[i].key = pj[h].evs[j].key)
                            => Rank(pj[h].evs[i]) <= Rank(pj[h].evs[j])

\* The title A -> B with a new input y emits node.renamed and then
\* node.input-added.
C23_Witness ==
    /\ pj["h1"].pc = "push"
    /\ TypeSeq(pj["h1"].evs) = <<"node.renamed", "node.input-added">>
    /\ pj["h1"].evs[1].from = "A"
    /\ pj["h1"].evs[1].title = "B"
    /\ pj["h1"].evs[2].item = "y"

\* The diff items of the claim for the revisions a and b, as type, key, item.
DiffItem(type, key, item) == [type |-> type, key |-> key, item |-> item]

DiffItems(a, b) ==
    {DiffItem("node.added", k, "") : k \in DOMAIN b \ DOMAIN a}
    \cup {DiffItem("node.removed", k, "") : k \in DOMAIN a \ DOMAIN b}
    \cup {DiffItem("node.renamed", k, "") :
            k \in {x \in DOMAIN a \cap DOMAIN b : a[x].title # b[x].title}}
    \cup UNION {{DiffItem("node.input-added", k, x) : x \in Items(b[k].input) \ Items(a[k].input)}
                : k \in DOMAIN a \cap DOMAIN b}
    \cup UNION {{DiffItem("node.input-removed", k, x) : x \in Items(a[k].input) \ Items(b[k].input)}
                : k \in DOMAIN a \cap DOMAIN b}
    \cup UNION {{DiffItem("node.output-added", k, x) : x \in Items(b[k].output) \ Items(a[k].output)}
                : k \in DOMAIN a \cap DOMAIN b}
    \cup UNION {{DiffItem("node.output-removed", k, x) : x \in Items(a[k].output) \ Items(b[k].output)}
                : k \in DOMAIN a \cap DOMAIN b}

\* The diff item an event stands for.
ItemOf(e) == DiffItem(e.type, e.key, e.item)

\* C24: a successful UpdateWorkflow publishes exactly one event per diff
\* item and no other: one node.added per added key, one node.removed per
\* removed key, one node.renamed per common key whose title differs, the
\* empty title included, and one input or output event per delta item.
C24_OneEventPerDiffItem ==
    pj["h1"].pc = "push" =>
        \A p \in FindProject(projects, pj["h1"].id, pj["h1"].account) :
            LET items == DiffItems(CurrentNodes(p), ParseSource(pj["h1"].source).nodes)
                evs == pj["h1"].evs
            IN  /\ \A t \in items : Cardinality({i \in 1..Len(evs) : ItemOf(evs[i]) = t}) = 1
                /\ \A i \in 1..Len(evs) : ItemOf(evs[i]) \in items

\* ---------------------------------------------------------------- stored order
\* C22: the events of one UpdateWorkflow call are stored in the order they
\* were emitted, the one emitted first under the smaller id. Here
\* node.renamed and node.input-added are published by one call only, the
\* rename first.
C22_StoredInEmissionOrder ==
    \A e1, e2 \in events :
        (e1.type = "node.renamed" /\ e2.type = "node.input-added") => e1.id < e2.id

\* ---------------------------------------------------------------- versions
\* Some Update was applied in this step.
SomeUpdateApplied ==
    \E u \in Updaters : UpdateWrite(u) /\ up'[u].rep = DataReply("OK", "")

\* C40: the version of an object starts at 0, increases by exactly 1 with
\* every Update that is applied, is left as it is by an Update that fails
\* and by Describe and Get, and never decreases.
C40_VersionCountsUpdates ==
    [][\A id \in ObjIds :
        /\ (FindId(objects, id) = {}) => \A n \in FindId(objects', id) : n.version = 0
        /\ \A o \in FindId(objects, id) :
                \E n \in FindId(objects', id) :
                    IF SomeUpdateApplied
                    THEN n.version = o.version + 1
                    ELSE n = o
        /\ \A u \in Updaters :
                (up[u].pc # "replied" /\ up'[u].pc = "replied"
                    /\ up'[u].rep.code # "OK") => objects' = objects
        /\ (\E u \in Updaters : Describe(u, id) \/ \E g \in BOOLEAN : Get(u, id, g))
                => objects' = objects]_vars

\* An object has taken two Updates; a third conflicted, and a Describe
\* has returned the record with version 2.
C40_Witness ==
    /\ \E o \in objects : o.version = 2
    /\ up["u2"].rep = DataReply("Unavailable", "object update conflict")
    /\ up["u1"].pc = "replied"
    /\ up["u1"].rep.code = "OK"
    /\ up["u1"].d.version = 2
    /\ up["u1"].req = ZeroUpdateRequest

\* ---------------------------------------------------------------- upload path
\* The object the helper l works on.
HelperObject(l) == FindId(objects, ft[l].id)

\* C31: the Upload helper drives the fresh object from CREATED over
\* INPROGRESS to DONE and returns the id only after the PUT succeeded and
\* DONE was applied; after a failed PUT it moves the object to ERROR with
\* the error text and returns an error, and the object is never DONE.
C31_UploadPath ==
    \A l \in Uploaders :
        /\ (ft[l].pc = "start" /\ up[l].pc # "replied") =>
                \A o \in HelperObject(l) : o.state = "CREATED"
        /\ ft[l].pc \in {"upload", "failed", "copied"} =>
                \A o \in HelperObject(l) :
                    o.state \in {"INPROGRESS", IF ft[l].err # "" THEN "ERROR" ELSE "DONE"}
        /\ (ft[l].pc = "ended" /\ ft[l].rep.code = "OK") =>
                /\ ft[l].err = ""
                /\ ft[l].applied = "DONE"
                /\ \E o \in HelperObject(l) : o.state = "DONE" /\ o.hash = ft[l].hash
        /\ (ft[l].pc = "ended" /\ ft[l].err # "") =>
                /\ ft[l].rep.code # "OK"
                /\ \E o \in HelperObject(l) : o.state = "ERROR" /\ o.error = ft[l].err
        /\ ft[l].err # "" => \A o \in HelperObject(l) : o.state # "DONE"

\* The helper has returned the id of an object that is DONE at version 2.
C31_Witness ==
    /\ ft["l1"].pc = "ended"
    /\ ft["l1"].rep = DataReply("OK", "")
    /\ \E o \in objects : o.id = ft["l1"].id /\ o.state = "DONE" /\ o.version = 2

\* The helper has returned an error after a failed PUT, the object is in ERROR.
C31_WitnessFailed ==
    /\ ft["l1"].pc = "ended"
    /\ ft["l1"].rep = DataReply("Unknown", "boom")
    /\ \E o \in objects : o.id = ft["l1"].id /\ o.state = "ERROR" /\ o.error = "boom"

\* ---------------------------------------------------------------- file order
\* The positions of the files of a list whose id is not in ids.
Kept(files, ids) == {k \in 1..Len(files) : files[k].id \notin ids}

\* new is files without the entries whose id is in ids, the others in the
\* order they had.
IsRest(new, files, ids) ==
    /\ Len(new) = Cardinality(Kept(files, ids))
    /\ \A i \in 1..Len(new) :
            \E k \in Kept(files, ids) :
                /\ Cardinality({m \in Kept(files, ids) : m <= k}) = i
                /\ new[i] = files[k]

\* The AddFiles requests of the model.
AddFilesRequests ==
    {[project |-> Project, id |-> "a", files |-> [k \in 1..Len(fs) |-> File(fs[k])]]
        : fs \in FileLists}

\* C32: a successful AddFiles appends its files at the end of the node's
\* list in request order, and a successful RemoveFiles deletes exactly the
\* files with the requested ids and keeps the order of the others; no
\* other step changes a file list.
C32_FileListOrder ==
    [][/\ \A r \in NodeCallers, req \in AddFilesRequests :
            (AddFiles(r, req) /\ nr'[r].rep = NodeOK) =>
                \A n \in FindNode(nodes, req.project, req.id) :
                    \E m \in FindNode(nodes', req.project, req.id) :
                        m.files = n.files \o req.files
       /\ \A r \in NodeCallers :
            (RemoveFilesPull(r) /\ nr'[r].rep = NodeOK) =>
                \A n \in FindNode(nodes, nr[r].project, nr[r].id) :
                    \E m \in FindNode(nodes', nr[r].project, nr[r].id) :
                        IsRest(m.files, n.files, Items(nr[r].fileIds))
       /\ (\A r \in NodeCallers :
                /\ ~(RemoveFilesPull(r) /\ nr'[r].rep = NodeOK)
                /\ \A req \in AddFilesRequests : ~(AddFiles(r, req) /\ nr'[r].rep = NodeOK))
            => \A n \in nodes : \A m \in FindNode(nodes', n.project, n.id) :
                    m.files = n.files]_vars

\* f2 was removed from the list f1, f2, f3, which left f1, f3.
C32_Witness ==
    /\ \E r \in NodeCallers :
            /\ nr[r].pc = "publish"
            /\ nr[r].op = "RemoveFiles"
            /\ nr[r].evs[1].files = <<File("f2")>>
    /\ \E n \in FindNode(nodes, Project, "a") :
            n.files = <<File("f1"), File("f3")>>

\* ---------------------------------------------------------------- node identity
\* The identities the node operations are called with.
NodeIdents == [project : {"", Project}, id : {"", " ", "a"}]

\* The operations that update a node, called by r for the identity i.
UpdateCalled(r, i) ==
    \/ NodesSetTitle(r, [project |-> i.project, id |-> i.id, title |-> "B"])
    \/ NodesSetNotes(r, [project |-> i.project, id |-> i.id, notes |-> "x"])
    \/ \E fs \in FileLists \ {<<>>} :
            AddFiles(r, [project |-> i.project, id |-> i.id,
                         files |-> [k \in 1..Len(fs) |-> File(fs[k])]])
    \/ \E fs \in FileLists \ {<<>>} :
            RemoveFilesBegin(r, [project |-> i.project, id |-> i.id, fileIds |-> fs])

\* Any operation called by r for the identity i.
OperationCalled(r, i) ==
    \/ UpdateCalled(r, i)
    \/ \E t \in {"UNKNOWN", "DATA"} :
            NodesCreate(r, [project |-> i.project, id |-> i.id, type |-> t, title |-> "A"])
    \/ NodesGet(r, i)

\* The call of r is answered with code, no node is created or changed and
\* no event is or will be published.
Refused(r, code) ==
    /\ nr'[r].pc = "replied"
    /\ nr'[r].rep.code = code
    /\ nr'[r].evs = <<>>
    /\ nodes' = nodes
    /\ inbox' = inbox

\* C33: every node operation on a blank project or node id fails with
\* InvalidArgument, and SetTitle, SetNotes, AddFiles and RemoveFiles on a
\* node that does not exist fail with NotFound; neither creates or changes
\* a node or publishes an event.
C33_BlankAndMissingNodes ==
    [][\A r \in NodeCallers, i \in NodeIdents :
        /\ (OperationCalled(r, i) /\ ~nodeHasIdent(i)) => Refused(r, "InvalidArgument")
        /\ (UpdateCalled(r, i) /\ nodeHasIdent(i) /\ FindNode(nodes, i.project, i.id) = {})
                => Refused(r, "NotFound")]_vars

\* ---------------------------------------------------------------- projected fields
\* C34: the event handler changes the node table only on node.added and
\* node.renamed; on every other event type it leaves every node as it
\* was, and on no event does it change the notes or the files of a node.
C34_OnlyAddedAndRenamedProject ==
    [][\A n \in NodeHandlers :
        NodesHandle(n) =>
            /\ nh[n].e.type \notin {"node.added", "node.renamed"} => nodes' = nodes
            /\ \A old \in nodes :
                    \E new \in FindNode(nodes', old.project, old.id) :
                        new.notes = old.notes /\ new.files = old.files
            /\ \A new \in nodes' :
                    FindNode(nodes, new.project, new.id) = {}
                        => new.notes = "" /\ new.files = <<>>]_vars

\* The handler has consumed every event, those of SetNotes and AddFiles
\* among them, and the node still has its notes and its file.
C34_Witness ==
    /\ nh["n1"].pc = "returned"
    /\ inbox["nodes"] = <<>>
    /\ nr["c1"].pc = "idle"
    /\ \E n \in FindNode(nodes, Project, "a") :
            n.notes = "x" /\ n.files = <<File("f1")>> /\ n.title = "B"

\* ---------------------------------------------------------------- failed publishes
\* C35: when the publish of an event fails after the state write of
\* CreateProject, UpdateProject, UpdateWorkflow, DeleteProject, SetNotes,
\* AddFiles or RemoveFiles, the stored state is kept as written and the
\* operation goes on to return success.
C35_PublishFailureKeepsWrite ==
    [][/\ \A h \in ProjHandlers :
            ProjectPublish(h, FALSE, {"replay"}) =>
                /\ projects' = projects
                /\ inbox' = inbox
                /\ pj'[h].pc \in {"publish", "replied"}
                /\ pj'[h].rep.code = "OK"
       /\ \A r \in NodeCallers :
            NodesPublish(r, FALSE, {"replay"}) =>
                /\ nodes' = nodes
                /\ inbox' = inbox
                /\ nr'[r].pc = "replied"
                /\ nr'[r].rep = NodeOK]_vars

\* UpdateWorkflow and AddFiles have returned success, their writes are
\* stored, and no event was published.
C35_Witness ==
    /\ inbox["replay"] = <<>>
    /\ pj["h1"].pc = "replied"
    /\ pj["h1"].rep.code = "OK"
    /\ \E p \in projects : Len(p.workflows) = 1
    /\ nr["c1"].pc = "replied"
    /\ nr["c1"].rep = NodeOK
    /\ \E n \in FindNode(nodes, Project, "a") : n.files = <<File("f1")>> /\ n.notes = "x"

\* ---------------------------------------------------------------- missing projects
\* The step is a call of GetProject, UpdateProject, UpdateWorkflow or
\* DeleteProject by handler h for account a on the project id.
ProjectCalled(h, a, id) ==
    \/ GetProject(h, [id |-> id, account |-> a])
    \/ UpdateProject(h, [id |-> id, account |-> a, name |-> "P"])
    \/ UpdateWorkflowBegin(h, [id |-> id, account |-> a,
                               source |-> <<Entry("a", "data", "A", <<>>, <<>>)>>])
    \/ DeleteProject(h, [id |-> id, account |-> a])

\* C36: GetProject, UpdateProject, UpdateWorkflow and DeleteProject on a
\* project id that is not stored for the calling account fail with
\* NotFound, change no stored project and publish no event.
C36_MissingProjectNotFound ==
    [][\A a \in Accounts :
            (FindProject(projects, Project, a) = {} /\ ProjectCalled("h1", a, Project)) =>
                /\ pj'["h1"].pc = "replied"
                /\ pj'["h1"].rep.code = "NotFound"
                /\ projects' = projects
                /\ inbox' = inbox]_vars

\* ---------------------------------------------------------------- sealed windows
\* C37: every commit seals at least one event: in every reachable state,
\* with Commit calls running concurrently, the History event window of
\* each commit is non-empty.
C37_WindowsNonEmpty ==
    \A c \in commits : HistoryWindow(c, commits, events) # {}

\* C38: a sealed window is stable: once a commit exists, the set of events
\* History returns for it never changes, whatever ingests and Commit calls
\* happen later or were in flight when it was inserted.
C38_SealedWindowStable ==
    [][\A c \in commits :
            HistoryWindow(c, commits', events') = HistoryWindow(c, commits, events)]_vars

\* ---------------------------------------------------------------- concurrent revisions
\* C39: with UpdateWorkflow calls on one project running concurrently, the
\* events published for each appended revision are those of the difference
\* between that revision and the revision stored immediately before it in
\* the project's revision list.
C39_DiffAgainstStoredPredecessor ==
    [][\A h \in ProjHandlers :
            (UpdateWorkflowPush(h) /\ projects' # projects) =>
                \A p \in FindProject(projects, pj[h].id, pj[h].account) :
                    LET gd == DiffGraph(CurrentNodes(p), ParseSource(pj[h].source).nodes)
                    IN  /\ ~gd.nil
                        /\ pj[h].evs \in Emissions(gd, pj[h].id, pj[h].wid)]_vars
====
